---- MODULE Spec2Model ----
(***************************************************************************)
(* Frame-graph scheduling core of VulkanRenderVB: RenderGraph,             *)
(* BarrierBatcher and ImageCache.                                          *)
(*                                                                         *)
(* Handles are 0-based as in the C++ code; the TLA+ sequences that hold    *)
(* the tables are 1-based, so table[h + 1] is the entry of handle h.       *)
(* Bit masks (VkPipelineStageFlags2, VkAccessFlags2) are sets of bit       *)
(* names: | is \cup, & is \cap, and a mask is non-zero iff it is not {}.   *)
(***************************************************************************)
EXTENDS Integers, Sequences, FiniteSets, TLC

VARIABLES
    \* ---- RenderGraph (RenderGraph.h:85-98)
    mImageCache,        \* "null" until Initialize, then "cache"
    mFrameNumber,
    mResources,         \* Seq of ResourceNode
    mPasses,            \* Seq of PassEntry
    mExecutionOrder,    \* Seq of pass handles
    mCompiled,
    mTransientRefs,     \* Seq of [resource, cached]
    \* ---- BarrierBatcher (BarrierBatcher.h:56-58)
    mImageStates,           \* Seq of ImageState
    mPendingImageBarriers,  \* Seq of image barriers
    mPendingBufferBarriers, \* Seq of buffer barriers
    \* ---- ImageCache (ImageCache.h:73-76)
    mMutex,             \* 0 when free, else the thread holding it
    mPool,              \* key -> Seq of entry ids (an absent bucket is << >>)
    mOwned,             \* Seq of entry ids
    heap,               \* entry id -> CachedImage, or NoEntry when not allocated
    \* ---- callers of the cache
    pc,                 \* thread -> position inside a cache call
    local,              \* thread -> arguments and locals of the call in progress
    held,               \* thread -> set of entries it acquired and did not release
    \* ---- what the command buffer and the callers observed
    cmd,                \* what the latest Execute of the frame (or, for the batcher used
                        \* on its own, the latest batcher call) recorded
    lastOp,             \* the most recent call that completed
    compiledSinceBegin, \* Compile was called since the most recent BeginFrame (or at all)
    tag,                \* entry id -> progress of an Acquire/Release/Acquire round
    lastReq,            \* batcher resource -> the latest TransitionImage request on it
    srcScope,           \* batcher resource -> the stage and access masks requested on it
                        \* since its latest barrier was appended (or its initial state)
    keptHandles,        \* the handles a caller stored, each with the frame it got it in
    crashed             \* the process dereferenced a null ImageCache

graphVars   == <<mImageCache, mFrameNumber, mResources, mPasses, mExecutionOrder,
                 mCompiled, mTransientRefs>>
batcherVars == <<mImageStates, mPendingImageBarriers, mPendingBufferBarriers>>
cacheVars   == <<mMutex, mPool, mOwned, heap>>
threadVars  == <<pc, local, held, tag>>
ghostVars   == <<cmd, compiledSinceBegin, lastReq, srcScope, keptHandles>>
vars == <<mImageCache, mFrameNumber, mResources, mPasses, mExecutionOrder,
          mCompiled, mTransientRefs, mImageStates, mPendingImageBarriers,
          mPendingBufferBarriers, mMutex, mPool, mOwned, heap, pc, local, held,
          cmd, lastOp, compiledSinceBegin, tag, lastReq, srcScope,
          keptHandles, crashed>>

(***************************************************************************)
(* Bounds                                                                  *)
(***************************************************************************)
MaxResources      == 1   \* resources registered per frame (execution model)
MaxPasses         == 2   \* passes registered per frame (execution model)
MaxOrderPasses    == 3   \* passes registered per frame (ordering model)
MaxDeps           == 2   \* DependsOn calls of one Setup (ordering model)
MaxFrameResources == 2   \* resources registered per frame (frame model)
MaxFramePasses    == 1   \* passes registered per frame (frame model)
MaxFrame          == 1   \* frame numbers run over 0..MaxFrame
MaxImages         == 2   \* backing images the allocator can hold at once
MaxTracked        == 1   \* resources of the stand-alone batcher
MaxPending        == 1   \* barriers the stand-alone batcher queues before a Flush
MaxIdle           == 1   \* maxIdleFrames runs over 0..MaxIdle
MaxAccesses       == 1   \* reads, writes and edges added to a pass by direct calls
MaxTransitionTracked == 2 \* resources of the batcher in the transition model
NumThreads        == 2   \* concurrent callers of the cache

\* A uint32_t value is held as the 32-bit two's-complement integer with the
\* same bits, the integers of TLC being 32-bit signed: 0 .. 2^31-1 stand
\* for themselves and 2^31 .. 2^32-1 for the value minus 2^32.
INT32_MAX  == 2147483647
INT32_MIN  == -INT32_MAX - 1
UINT32_MAX == -1

\* a - b on uint32_t: the difference modulo 2^32, computed without leaving
\* the 32-bit range.
Sub32(a, b) ==
    IF (a < 0) = (b < 0) THEN a - b
    ELSE IF a >= 0
         THEN \* the difference is a + (-1 - b) + 1 >= 1
              LET nb == -1 - b
              IN  IF a <= INT32_MAX - nb - 1 THEN a + nb + 1
                  ELSE ((a - INT32_MAX) + nb) - INT32_MAX - 1
         ELSE \* the difference is negative; below INT32_MIN it wraps
              IF a >= INT32_MIN + b THEN a - b
              ELSE ((a - INT32_MIN) - b) + INT32_MAX + 1

\* a <= b and a < b on uint32_t
ULe32(a, b) == IF (a < 0) = (b < 0) THEN a <= b ELSE b < 0
ULt32(a, b) == a # b /\ ULe32(a, b)

VK_NULL_HANDLE == 0
ExternalImage  == 100   \* an image handle supplied by the caller of AddImage

Frames  == 0..MaxFrame
Threads == 1..NumThreads
Ids     == 1..MaxImages
NoEntry == [free |-> TRUE]

(***************************************************************************)
(* Sequence helpers                                                        *)
(***************************************************************************)
Range(s) == {s[i] : i \in DOMAIN s}

SeqsUpTo(S, n) == UNION {[1..k -> S] : k \in 0..n}

RECURSIVE Iota(_)
\* <<0, 1, ..., n-1>>
Iota(n) == IF n = 0 THEN << >> ELSE Append(Iota(n - 1), n - 1)

(***************************************************************************)
(* BarrierBatcher                                                          *)
(***************************************************************************)
kWriteBits == {"SHADER_WRITE", "COLOR_ATTACHMENT_WRITE",
               "DEPTH_STENCIL_ATTACHMENT_WRITE", "TRANSFER_WRITE",
               "HOST_WRITE", "MEMORY_WRITE"}

ImageState(l, s, a) == [layout |-> l, stage |-> s, access |-> a]

\* A batcher value is [states, images, buffers]: the three member vectors.
Batcher(st, im, bu) == [states |-> st, images |-> im, buffers |-> bu]

BatcherReset(n) ==
    Batcher([i \in 1..n |-> ImageState("UNDEFINED", {"TOP_OF_PIPE"}, {})], << >>, << >>)

BatcherSetInitialState(b, resourceIdx, layout, stage, access) ==
    IF resourceIdx < Len(b.states)
    THEN [b EXCEPT !.states[resourceIdx + 1] = ImageState(layout, stage, access)]
    ELSE b

\* LayoutChange that only looks for the first use of an image.
LayoutChangeFromUndefined(s, newLayout) ==
    s.layout = "UNDEFINED" /\ s.layout # newLayout

LayoutChange(s, newLayout) == s.layout # newLayout

\* Hazard that tests the access masks instead of their write bits.
HazardOnAnyAccess(s, dstAccess) == (s.access # {}) \/ (dstAccess # {})

Hazard(s, dstAccess) ==
    (s.access \cap kWriteBits # {}) \/ (dstAccess \cap kWriteBits # {})

BarrierRequired(s, newLayout, dstAccess) ==
    LayoutChange(s, newLayout) \/ Hazard(s, dstAccess)

\* TransitionImage whose early return leaves the tracked masks as they were.
BatcherTransitionImageNoWiden(b, resourceIdx, image, newLayout, dstStage, dstAccess) ==
    IF resourceIdx >= Len(b.states) THEN b
    ELSE LET s == b.states[resourceIdx + 1] IN
         IF ~BarrierRequired(s, newLayout, dstAccess)
         THEN b
         ELSE [b EXCEPT
                 !.images = Append(@, [srcStageMask  |-> s.stage,
                                       srcAccessMask |-> s.access,
                                       dstStageMask  |-> dstStage,
                                       dstAccessMask |-> dstAccess,
                                       oldLayout     |-> s.layout,
                                       newLayout     |-> newLayout,
                                       image         |-> image,
                                       resource      |-> resourceIdx]),
                 !.states[resourceIdx + 1] = ImageState(newLayout, dstStage, dstAccess)]

\* TransitionImage that widens the tracked masks after a barrier too.
BatcherTransitionImageAccumulates(b, resourceIdx, image, newLayout, dstStage, dstAccess) ==
    IF resourceIdx >= Len(b.states) THEN b
    ELSE LET s == b.states[resourceIdx + 1] IN
         IF ~BarrierRequired(s, newLayout, dstAccess)
         THEN [b EXCEPT !.states[resourceIdx + 1] =
                   ImageState(s.layout, s.stage \cup dstStage, s.access \cup dstAccess)]
         ELSE [b EXCEPT
                 !.images = Append(@, [srcStageMask  |-> s.stage,
                                       srcAccessMask |-> s.access,
                                       dstStageMask  |-> dstStage,
                                       dstAccessMask |-> dstAccess,
                                       oldLayout     |-> s.layout,
                                       newLayout     |-> newLayout,
                                       image         |-> image,
                                       resource      |-> resourceIdx]),
                 !.states[resourceIdx + 1] =
                     ImageState(newLayout, s.stage \cup dstStage, s.access \cup dstAccess)]

BatcherTransitionImage(b, resourceIdx, image, newLayout, dstStage, dstAccess) ==
    IF resourceIdx >= Len(b.states) THEN b
    ELSE LET s == b.states[resourceIdx + 1] IN
         IF ~BarrierRequired(s, newLayout, dstAccess)
         THEN [b EXCEPT !.states[resourceIdx + 1] =
                   ImageState(s.layout, s.stage \cup dstStage, s.access \cup dstAccess)]
         ELSE [b EXCEPT
                 !.images = Append(@, [srcStageMask  |-> s.stage,
                                       srcAccessMask |-> s.access,
                                       dstStageMask  |-> dstStage,
                                       dstAccessMask |-> dstAccess,
                                       oldLayout     |-> s.layout,
                                       newLayout     |-> newLayout,
                                       image         |-> image,
                                       resource      |-> resourceIdx]),
                 !.states[resourceIdx + 1] = ImageState(newLayout, dstStage, dstAccess)]

BatcherAddBufferBarrier(b, buffer, offset, size, srcStage, srcAccess, dstStage, dstAccess) ==
    [b EXCEPT !.buffers = Append(@, [srcStageMask  |-> srcStage,
                                     srcAccessMask |-> srcAccess,
                                     dstStageMask  |-> dstStage,
                                     dstAccessMask |-> dstAccess,
                                     buffer |-> buffer, offset |-> offset,
                                     size |-> size])]

\* Flush whose early return tests the image list only.
BatcherFlushImagesOnly(b) ==
    IF b.images = << >>
    THEN [b |-> b, emitted |-> << >>]
    ELSE [b |-> [b EXCEPT !.images = << >>, !.buffers = << >>],
          emitted |-> <<[ev |-> "barrier", images |-> b.images, buffers |-> b.buffers]>>]

\* Flush returns the batcher and the command it recorded (<< >> if none).
BatcherFlush(b) ==
    IF b.images = << >> /\ b.buffers = << >>
    THEN [b |-> b, emitted |-> << >>]
    ELSE [b |-> [b EXCEPT !.images = << >>, !.buffers = << >>],
          emitted |-> <<[ev |-> "barrier", images |-> b.images, buffers |-> b.buffers]>>]

(***************************************************************************)
(* ImageCache                                                              *)
(***************************************************************************)
ImageKey(fmt, w, h, usage, aspect, layers, mips, samples, tiling) ==
    [format |-> fmt, width |-> w, height |-> h, usage |-> usage, aspect |-> aspect,
     arrayLayers |-> layers, mipLevels |-> mips, samples |-> samples, tiling |-> tiling]

\* ImageKey::operator==
KeyEq(a, b) ==
    /\ a.format = b.format /\ a.width = b.width /\ a.height = b.height
    /\ a.usage = b.usage /\ a.aspect = b.aspect /\ a.arrayLayers = b.arrayLayers
    /\ a.mipLevels = b.mipLevels /\ a.samples = b.samples /\ a.tiling = b.tiling

\* A cache value is [pool, owned, heap]: mPool, mOwned and the CachedImage objects.
Cache(p, o, hp) == [pool |-> p, owned |-> o, heap |-> hp]

\* mPool.find(key): the bucket stored under an equal key, << >> when there is none.
Bucket(c, key) ==
    LET ks == {k \in DOMAIN c.pool : KeyEq(k, key)}
    IN  IF ks = {} THEN << >> ELSE c.pool[CHOOSE k \in ks : TRUE]

\* The loop of Acquire: the first entry of the bucket that is not in use, 0 if none.
FirstFree(c, key) ==
    LET b  == Bucket(c, key)
        is == {i \in DOMAIN b : ~c.heap[b[i]].inUse}
    IN  IF is = {} THEN 0 ELSE b[CHOOSE i \in is : \A j \in is : i <= j]

\* The loop body of Acquire without the store to lastUsedFrame.
TakeEntryNoStamp(c, img, currentFrame) ==
    IF c.heap[img] = NoEntry THEN c
    ELSE [c EXCEPT !.heap[img].inUse = TRUE]

\* img->inUse = true; img->lastUsedFrame = currentFrame.  The first branch
\* is a store through a pointer whose object was freed; it cannot be taken
\* while every change of the pool is made under mMutex.
TakeEntry(c, img, currentFrame) ==
    IF c.heap[img] = NoEntry THEN c
    ELSE [c EXCEPT !.heap[img].inUse = TRUE, !.heap[img].lastUsedFrame = currentFrame]

\* std::make_unique<CachedImage>(): a fresh object, 0 when the allocator is full.
FreshId(c) ==
    LET fs == {i \in Ids : c.heap[i] = NoEntry}
    IN  IF fs = {} THEN 0 ELSE CHOOSE i \in fs : \A j \in fs : i <= j

\* CreateImage that pools the entry before it looks at the result of
\* vmaCreateImage.
CacheCreateImagePoolsFirst(c, key, currentFrame, vmaOk) ==
    LET id == FreshId(c) IN
    IF id = 0
    THEN [c |-> c, ret |-> 0, created |-> FALSE]
    ELSE LET entry == [key |-> key, image |-> IF vmaOk THEN id ELSE VK_NULL_HANDLE,
                       view |-> id, allocation |-> id,
                       lastUsedFrame |-> currentFrame, inUse |-> TRUE]
             ks    == {k \in DOMAIN c.pool : KeyEq(k, key)}
             kk    == IF ks = {} THEN key ELSE CHOOSE k \in ks : TRUE
             pool2 == [k \in DOMAIN c.pool \cup {kk} |->
                         IF k = kk THEN Append(Bucket(c, key), id) ELSE c.pool[k]]
         IN  [c |-> Cache(pool2, Append(c.owned, id), [c.heap EXCEPT ![id] = entry]),
              ret |-> IF vmaOk THEN id ELSE 0, created |-> vmaOk]

\* vmaOk is the outcome of vmaCreateImage; it cannot succeed when the allocator is full.
CacheCreateImage(c, key, currentFrame, vmaOk) ==
    LET id == FreshId(c) IN
    IF ~vmaOk \/ id = 0
    THEN [c |-> c, ret |-> 0, created |-> FALSE]
    ELSE LET entry == [key |-> key, image |-> id, view |-> id, allocation |-> id,
                       lastUsedFrame |-> currentFrame, inUse |-> TRUE]
             ks    == {k \in DOMAIN c.pool : KeyEq(k, key)}
             kk    == IF ks = {} THEN key ELSE CHOOSE k \in ks : TRUE
             pool2 == [k \in DOMAIN c.pool \cup {kk} |->
                         IF k = kk THEN Append(Bucket(c, key), id) ELSE c.pool[k]]
         IN  [c |-> Cache(pool2, Append(c.owned, id), [c.heap EXCEPT ![id] = entry]),
              ret |-> id, created |-> TRUE]

CacheAcquire(c, key, currentFrame, vmaOk) ==
    LET img == FirstFree(c, key) IN
    IF img # 0
    THEN [c |-> TakeEntry(c, img, currentFrame), ret |-> img, created |-> FALSE]
    ELSE CacheCreateImage(c, key, currentFrame, vmaOk)

CacheReleaseKeepsInUse(c, img) == c

CacheRelease(c, img) ==
    IF img = 0 THEN c ELSE [c EXCEPT !.heap[img].inUse = FALSE]

\* The idle age taken as 0 when currentFrame is below lastUsedFrame.
IdleAgeClamped(currentFrame, lastUsedFrame) ==
    IF ULt32(currentFrame, lastUsedFrame) THEN 0
    ELSE Sub32(currentFrame, lastUsedFrame)

\* currentFrame - img->lastUsedFrame on uint32_t
IdleAge(currentFrame, lastUsedFrame) == Sub32(currentFrame, lastUsedFrame)

\* The predicate with the window test written < instead of <=.
EvictableAtWindow(entry, currentFrame, maxIdleFrames) ==
    /\ ~entry.inUse
    /\ ~ULt32(IdleAge(currentFrame, entry.lastUsedFrame), maxIdleFrames)

\* The predicate of the remove_if over one bucket.
Evictable(entry, currentFrame, maxIdleFrames) ==
    /\ ~entry.inUse
    /\ ~ULe32(IdleAge(currentFrame, entry.lastUsedFrame), maxIdleFrames)

CacheEvictUnused(c, currentFrame, maxIdleFrames) ==
    LET gone(id)  == Evictable(c.heap[id], currentFrame, maxIdleFrames)
        kept(k)   == SelectSeq(c.pool[k], LAMBDA id : ~gone(id))
        pooled    == UNION {Range(c.pool[k]) : k \in DOMAIN c.pool}
        pool2     == [k \in {x \in DOMAIN c.pool : kept(x) # << >>} |-> kept(k)]
        \* the entries visited by the first loop have their handles nulled
        heap1     == [id \in Ids |->
                        IF id \in pooled /\ gone(id)
                        THEN [c.heap[id] EXCEPT !.image = VK_NULL_HANDLE,
                                                !.view = VK_NULL_HANDLE,
                                                !.allocation = VK_NULL_HANDLE]
                        ELSE c.heap[id]]
        dead(id)  == heap1[id].image = VK_NULL_HANDLE
        owned2    == SelectSeq(c.owned, LAMBDA id : ~dead(id))
        \* erasing the unique_ptr frees the object
        heap2     == [id \in Ids |->
                        IF id \in Range(c.owned) /\ dead(id) THEN NoEntry ELSE heap1[id]]
    IN  Cache(pool2, owned2, heap2)

(***************************************************************************)
(* RenderGraph: tables                                                     *)
(***************************************************************************)
TransientImageDesc(fmt, w, h, usage, aspect, layers) ==
    [format |-> fmt, width |-> w, height |-> h, usage |-> usage, aspect |-> aspect,
     arrayLayers |-> layers]

\* ResourceNode{} : the default member initialisers of ResourceNode.h
DefaultDesc == TransientImageDesc("R8G8B8A8_UNORM", 0, 0, {}, "COLOR", 1)

\* The node's name, aspect and arrayLayers only label the barrier's
\* subresource range and are not part of the model.
ResourceNode(image, view, initialLayout, isTransient, desc) ==
    [image |-> image, view |-> view, initialLayout |-> initialLayout,
     isTransient |-> isTransient, transientDesc |-> desc,
     firstUse |-> UINT32_MAX, lastUse |-> 0]

ResourceAccess(res, layout, stage, access) ==
    [resource |-> res, layout |-> layout, stage |-> stage, access |-> access]

Dependency(dep, res) == [dependency |-> dep, resource |-> res]

PassEntry(reads, writes, deps) ==
    [reads |-> reads, writes |-> writes, dependencies |-> deps]

(***************************************************************************)
(* RenderGraph::Compile                                                    *)
(***************************************************************************)
RECURSIVE EdgesFrom(_, _, _)
\* The pairs <<dependency, dependent>> in the order the double loop of
\* Compile visits them, starting at pass i (0-based).
EdgesFrom(passes, i, k) ==
    IF i >= Len(passes) THEN << >>
    ELSE IF k > Len(passes[i + 1].dependencies) THEN EdgesFrom(passes, i + 1, 1)
    ELSE <<<<passes[i + 1].dependencies[k].dependency, i>>>>
             \o EdgesFrom(passes, i, k + 1)

\* BuildGraph with the edge recorded the wrong way round:
\* adj[i].push_back(dep.dependency); inDegree[dep.dependency]++
BuildGraphReversed(passes) ==
    LET es == EdgesFrom(passes, 0, 1)
        n  == Len(passes)
    IN  [adj      |-> [p \in 0..(n - 1) |->
                         LET hits == SelectSeq(es, LAMBDA e : e[2] = p)
                         IN  [j \in DOMAIN hits |-> hits[j][1]]],
         inDegree |-> [p \in 0..(n - 1) |->
                         Len(SelectSeq(es, LAMBDA e : e[1] = p))]]

\* adj[dep.dependency].push_back(i); inDegree[i]++
BuildGraph(passes) ==
    LET es == EdgesFrom(passes, 0, 1)
        n  == Len(passes)
    IN  [adj      |-> [p \in 0..(n - 1) |->
                         LET hits == SelectSeq(es, LAMBDA e : e[1] = p)
                         IN  [j \in DOMAIN hits |-> hits[j][2]]],
         inDegree |-> [p \in 0..(n - 1) |->
                         Len(SelectSeq(es, LAMBDA e : e[2] = p))]]

RECURSIVE Relax(_, _, _)
\* for (next : adj[p]) if (--inDegree[next] == 0) ready.push(next);
Relax(succ, inDegree, ready) ==
    IF succ = << >> THEN [inDegree |-> inDegree, ready |-> ready]
    ELSE LET next == Head(succ)
             d    == Sub32(inDegree[next], 1)
         IN  Relax(Tail(succ), [inDegree EXCEPT ![next] = d],
                   IF d = 0 THEN Append(ready, next) ELSE ready)

RECURSIVE KahnLoop(_, _, _, _)
KahnLoop(adj, inDegree, ready, order) ==
    IF ready = << >> THEN order
    ELSE LET p == Head(ready)
             r == Relax(adj[p], inDegree, Tail(ready))
         IN  KahnLoop(adj, r.inDegree, r.ready, Append(order, p))

\* The sort with the initially ready passes queued from the highest handle
\* down.
KahnOrderDescending(passes) ==
    LET g     == BuildGraph(passes)
        n     == Len(passes)
        ready == SelectSeq([k \in 1..n |-> n - k], LAMBDA i : g.inDegree[i] = 0)
    IN  KahnLoop(g.adj, g.inDegree, ready, << >>)

KahnOrder(passes) ==
    LET g     == BuildGraph(passes)
        ready == SelectSeq(Iota(Len(passes)), LAMBDA i : g.inDegree[i] = 0)
    IN  KahnLoop(g.adj, g.inDegree, ready, << >>)

\* ExecutionOrder without the fallback of lines 122-126.
ExecutionOrderNoFallback(passes) == KahnOrder(passes)

\* An order derived from the declared usages: the passes that write a
\* resource first, the others after them, each group in declaration order.
ExecutionOrderWritersFirst(passes) ==
    LET all == Iota(Len(passes))
    IN  SelectSeq(all, LAMBDA i : passes[i + 1].writes # << >>)
            \o SelectSeq(all, LAMBDA i : passes[i + 1].writes = << >>)

\* Lines 108-126: the sorted order, or declaration order when a cycle
\* kept the sort from consuming every pass.
ExecutionOrder(passes) ==
    LET sorted == KahnOrder(passes)
    IN  IF Len(sorted) # Len(passes) THEN Iota(Len(passes)) ELSE sorted

\* Positions that also count the resource named in a DependsOn edge.
TouchedAtWithEdges(passes, order, h) ==
    {o \in 0..(Len(order) - 1) :
        LET e == passes[order[o + 1] + 1]
        IN  \/ \E i \in DOMAIN e.reads  : e.reads[i].resource = h
            \/ \E i \in DOMAIN e.writes : e.writes[i].resource = h
            \/ \E i \in DOMAIN e.dependencies : e.dependencies[i].resource = h}

\* Order positions (0-based) of the passes that read or write resource h.
TouchedAt(passes, order, h) ==
    {o \in 0..(Len(order) - 1) :
        LET e == passes[order[o + 1] + 1]
        IN  \/ \E i \in DOMAIN e.reads  : e.reads[i].resource = h
            \/ \E i \in DOMAIN e.writes : e.writes[i].resource = h}

\* std::min and std::max over uint32_t values
Min(S) == CHOOSE x \in S : \A y \in S : ULe32(x, y)
Max(S) == CHOOSE x \in S : \A y \in S : ULe32(y, x)

ComputeLifetimes(resources, passes, order) ==
    [i \in DOMAIN resources |->
        LET at == TouchedAt(passes, order, i - 1)
        IN  [resources[i] EXCEPT
               !.firstUse = Min(at \cup {UINT32_MAX}),
               !.lastUse  = Max(at \cup {0})]]

KeyOfDesc(desc) ==
    ImageKey(desc.format, desc.width, desc.height, desc.usage, desc.aspect,
             desc.arrayLayers, 1, "SAMPLE_COUNT_1", "TILING_OPTIMAL")

RECURSIVE AllocateFrom(_, _, _, _, _, _)
\* The loop of AllocateTransientResources from resource i (0-based) on;
\* vmaOk[i + 1] is the outcome of the allocation resource i may need.
AllocateFrom(i, resources, refs, c, frame, vmaOk) ==
    IF i >= Len(resources)
    THEN [resources |-> resources, refs |-> refs, c |-> c, failed |-> {}]
    ELSE IF ~resources[i + 1].isTransient
         THEN AllocateFrom(i + 1, resources, refs, c, frame, vmaOk)
    ELSE LET a == CacheAcquire(c, KeyOfDesc(resources[i + 1].transientDesc),
                               frame, vmaOk[i + 1])
         IN  IF a.ret # 0
             THEN AllocateFrom(i + 1,
                      [resources EXCEPT ![i + 1].image = a.c.heap[a.ret].image,
                                        ![i + 1].view  = a.c.heap[a.ret].view],
                      Append(refs, [resource |-> i, cached |-> a.ret]),
                      a.c, frame, vmaOk)
             ELSE \* if (cached) not taken; failed collects these resources
                  LET rest == AllocateFrom(i + 1, resources, refs, a.c, frame, vmaOk)
                  IN  [rest EXCEPT !.failed = @ \cup {i}]

AllocateTransientResources(resources, refs, c, frame, vmaOk) ==
    AllocateFrom(0, resources, refs, c, frame, vmaOk)

\* ReleaseTransientResources that drops the references without Release.
ReleaseAllForgotten(refs, c) == c

RECURSIVE ReleaseAll(_, _)
ReleaseAll(refs, c) ==
    IF refs = << >> THEN c
    ELSE ReleaseAll(Tail(refs), CacheRelease(c, Head(refs).cached))

(***************************************************************************)
(* RenderGraph::Execute                                                    *)
(***************************************************************************)
RECURSIVE TransitionAccesses(_, _, _, _, _, _)
\* One of the two inner loops of Execute over the reads or writes of pass p.
\* st is [b, tr]: the batcher and the events so far.
TransitionAccesses(st, accs, k, decl, p, resources) ==
    IF k > Len(accs) THEN st
    ELSE LET a  == accs[k]
             b2 == BatcherTransitionImage(st.b, a.resource,
                       resources[a.resource + 1].image, a.layout, a.stage, a.access)
             ev == [ev |-> "transition", pass |-> p, decl |-> decl,
                    resource |-> a.resource, layout |-> a.layout,
                    stage |-> a.stage, access |-> a.access,
                    appended |-> Len(b2.images) - Len(st.b.images)]
         IN  TransitionAccesses([b |-> b2, tr |-> Append(st.tr, ev)],
                                accs, k + 1, decl, p, resources)

\* The pass loop of Execute leaving after the first pass of the order.
ExecutePassesFirstOnly(st, order, passes, resources) ==
    IF order = << >> THEN st
    ELSE LET p     == Head(order)
             entry == passes[p + 1]
             s1    == TransitionAccesses(st, entry.reads, 1, "read", p, resources)
             s2    == TransitionAccesses(s1, entry.writes, 1, "write", p, resources)
             f     == BatcherFlush(s2.b)
             run   == [ev |-> "pass", pass |-> p, states |-> f.b.states,
                       pending |-> Len(f.b.images) + Len(f.b.buffers)]
         IN  [b |-> f.b, tr |-> s2.tr \o f.emitted \o <<run>>]

RECURSIVE ExecutePasses(_, _, _, _)
ExecutePasses(st, order, passes, resources) ==
    IF order = << >> THEN st
    ELSE LET p     == Head(order)
             entry == passes[p + 1]
             s1    == TransitionAccesses(st, entry.reads, 1, "read", p, resources)
             s2    == TransitionAccesses(s1, entry.writes, 1, "write", p, resources)
             f     == BatcherFlush(s2.b)
             run   == [ev |-> "pass", pass |-> p, states |-> f.b.states,
                       pending |-> Len(f.b.images) + Len(f.b.buffers)]
         IN  ExecutePasses([b |-> f.b, tr |-> s2.tr \o f.emitted \o <<run>>],
                           Tail(order), passes, resources)

\* Execute without the SetInitialState loop of lines 219-220.
SeedStatesFromReset(b, i, resources) == b

RECURSIVE SeedStates(_, _, _)
\* for (i < resCount) mBarrierBatcher.SetInitialState(i, initialLayout);
SeedStates(b, i, resources) ==
    IF i >= Len(resources) THEN b
    ELSE SeedStates(BatcherSetInitialState(b, i, resources[i + 1].initialLayout,
                                           {"TOP_OF_PIPE"}, {}),
                    i + 1, resources)

ExecuteBody(order, passes, resources) ==
    ExecutePasses([b  |-> SeedStates(BatcherReset(Len(resources)), 0, resources),
                   tr |-> << >>],
                  order, passes, resources)

(***************************************************************************)
(* Inputs                                                                  *)
(***************************************************************************)
\* The usages the passes of the repository declare in Setup.
ShadowWrite  == [layout |-> "DEPTH_ATTACHMENT_OPTIMAL",
                 stage  |-> {"EARLY_FRAGMENT_TESTS", "LATE_FRAGMENT_TESTS"},
                 access |-> {"DEPTH_STENCIL_ATTACHMENT_WRITE"}]
ForwardRead  == [layout |-> "SHADER_READ_ONLY_OPTIMAL",
                 stage  |-> {"FRAGMENT_SHADER"},
                 access |-> {"SHADER_SAMPLED_READ"}]
PresentWrite == [layout |-> "PRESENT_SRC_KHR",
                 stage  |-> {"BOTTOM_OF_PIPE"},
                 access |-> {}]

ReadUsages     == {ForwardRead}
WriteUsages    == {ShadowWrite, PresentWrite}
InitialLayouts == {"UNDEFINED", "DEPTH_ATTACHMENT_OPTIMAL"}
DescA == TransientImageDesc("D32_SFLOAT", 64, 64, {"DEPTH_STENCIL_ATTACHMENT"}, "DEPTH", 1)
DescB == TransientImageDesc("D32_SFLOAT", 128, 64, {"DEPTH_STENCIL_ATTACHMENT"}, "DEPTH", 1)

AccessesOf(usages, nres) ==
    {ResourceAccess(r, u.layout, u.stage, u.access) : r \in 0..(nres - 1), u \in usages}

\* What a pass's Setup may declare in the execution model: at most one
\* read and one write, on resources that are registered, and at most one
\* edge to another handle of the frame.
ExecSetups ==
    IF Len(mPasses) >= MaxPasses THEN {}
    ELSE {PassEntry(r, w, d) :
            r \in SeqsUpTo(AccessesOf(ReadUsages, Len(mResources)), 1),
            w \in SeqsUpTo(AccessesOf(WriteUsages, Len(mResources)), 1),
            d \in SeqsUpTo({Dependency(t, 0) :
                              t \in (0..(MaxPasses - 1)) \ {Len(mPasses)}}, 1)}

\* What a pass's Setup may declare in the ordering model: edges only, to
\* any handle of the frame (itself, earlier and later passes, repeated).
OrderSetups ==
    IF Len(mPasses) >= MaxOrderPasses THEN {}
    ELSE {PassEntry(<< >>, << >>, d) :
            d \in SeqsUpTo({Dependency(t, 0) : t \in 0..(MaxOrderPasses - 1)}, MaxDeps)}

\* What a pass's Setup may declare in the frame model: nothing, or one
\* write of a registered resource.
FrameSetups ==
    IF Len(mPasses) >= MaxFramePasses THEN {}
    ELSE {PassEntry(<< >>, w, << >>) :
            w \in SeqsUpTo(AccessesOf({ShadowWrite}, Len(mResources)), 1)}

(***************************************************************************)
(* RenderGraph: operations                                                 *)
(***************************************************************************)
CurCache == Cache(mPool, mOwned, heap)

Init ==
    /\ mImageCache = "null"
    /\ mFrameNumber = 0
    /\ mResources = << >>
    /\ mPasses = << >>
    /\ mExecutionOrder = << >>
    /\ mCompiled = FALSE
    /\ mTransientRefs = << >>
    /\ mImageStates = << >>
    /\ mPendingImageBarriers = << >>
    /\ mPendingBufferBarriers = << >>
    /\ mMutex = 0
    /\ mPool = [k \in {} |-> << >>]
    /\ mOwned = << >>
    /\ heap = [i \in Ids |-> NoEntry]
    /\ pc = [t \in Threads |-> "idle"]
    /\ local = [t \in Threads |-> [op |-> "none"]]
    /\ held = [t \in Threads |-> {}]
    /\ cmd = << >>
    /\ lastOp = [op |-> "none"]
    /\ compiledSinceBegin = FALSE
    /\ tag = [i \in Ids |-> "none"]
    /\ lastReq = << >>
    /\ srcScope = << >>
    /\ keptHandles = {}
    /\ crashed = FALSE

Initialize ==
    /\ ~crashed
    /\ mImageCache' = "cache"
    /\ lastOp' = [op |-> "Initialize"]
    /\ UNCHANGED <<mFrameNumber, mResources, mPasses, mExecutionOrder, mCompiled,
                   mTransientRefs, batcherVars, cacheVars, threadVars, ghostVars, crashed>>

AddImage(currentLayout) ==
    /\ ~crashed
    /\ mResources' = Append(mResources,
           ResourceNode(ExternalImage, ExternalImage, currentLayout, FALSE, DefaultDesc))
    /\ lastOp' = [op |-> "AddImage"]
    /\ UNCHANGED <<mImageCache, mFrameNumber, mPasses, mExecutionOrder, mCompiled,
                   mTransientRefs, batcherVars, cacheVars, threadVars, ghostVars, crashed>>

CreateImage(desc) ==
    /\ ~crashed
    /\ mResources' = Append(mResources,
           ResourceNode(VK_NULL_HANDLE, VK_NULL_HANDLE, "UNDEFINED", TRUE, desc))
    /\ lastOp' = [op |-> "CreateImage"]
    /\ UNCHANGED <<mImageCache, mFrameNumber, mPasses, mExecutionOrder, mCompiled,
                   mTransientRefs, batcherVars, cacheVars, threadVars, ghostVars, crashed>>

\* AddPass pushes the entry and runs the pass's Setup, whose Read, Write
\* and DependsOn calls fill the entry's three lists.
AddPass(setup) ==
    /\ ~crashed
    /\ mPasses' = Append(mPasses, setup)
    /\ lastOp' = [op |-> "AddPass"]
    /\ UNCHANGED <<mImageCache, mFrameNumber, mResources, mExecutionOrder, mCompiled,
                   mTransientRefs, batcherVars, cacheVars, threadVars, ghostVars, crashed>>

\* Compile indexes adj[dep.dependency] unchecked: a handle that names no
\* pass of the frame is outside the vector, so callers compile only graphs
\* whose edges name registered passes.
DependenciesInRange(passes) ==
    \A i \in DOMAIN passes : \A k \in DOMAIN passes[i].dependencies :
        passes[i].dependencies[k].dependency < Len(passes)

HasTransient(resources) == \E i \in DOMAIN resources : resources[i].isTransient

Compile(vmaOk) ==
    /\ ~crashed
    /\ DependenciesInRange(mPasses)
    /\ LET order == ExecutionOrder(mPasses)
           res1  == ComputeLifetimes(mResources, mPasses, order)
       IN  /\ mExecutionOrder' = order
           /\ IF mImageCache = "null" /\ HasTransient(mResources)
              THEN \* mImageCache->Acquire on a null pointer
                   /\ crashed' = TRUE
                   /\ mResources' = res1
                   /\ UNCHANGED <<mCompiled, mTransientRefs, cacheVars,
                                  compiledSinceBegin>>
              ELSE LET a == AllocateTransientResources(res1, mTransientRefs, CurCache,
                                                       mFrameNumber, vmaOk)
                   IN  /\ mResources' = a.resources
                       /\ mTransientRefs' = a.refs
                       /\ mPool' = a.c.pool
                       /\ mOwned' = a.c.owned
                       /\ heap' = a.c.heap
                       /\ mCompiled' = TRUE
                       /\ compiledSinceBegin' = TRUE
                       /\ UNCHANGED <<mMutex, crashed>>
    /\ lastOp' = [op |-> "Compile",
                  failed |-> IF mImageCache = "null" /\ HasTransient(mResources) THEN {}
                             ELSE AllocateTransientResources(
                                      ComputeLifetimes(mResources, mPasses,
                                                       ExecutionOrder(mPasses)),
                                      mTransientRefs, CurCache, mFrameNumber,
                                      vmaOk).failed]
    /\ UNCHANGED <<mImageCache, mFrameNumber, mPasses, batcherVars, threadVars,
                   cmd, lastReq, srcScope, keptHandles>>

Execute ==
    /\ ~crashed
    /\ IF ~mCompiled
       THEN /\ cmd' = << >>
            /\ UNCHANGED batcherVars
       ELSE LET r == ExecuteBody(mExecutionOrder, mPasses, mResources)
            IN  /\ mImageStates' = r.b.states
                /\ mPendingImageBarriers' = r.b.images
                /\ mPendingBufferBarriers' = r.b.buffers
                /\ cmd' = r.tr
    /\ lastOp' = [op |-> "Execute", compiled |-> mCompiled]
    /\ UNCHANGED <<graphVars, cacheVars, threadVars, compiledSinceBegin, lastReq, srcScope,
                   keptHandles,
                   crashed>>

\* BeginFrame that forgets to reset mCompiled.
BeginFrameKeepsCompiled(frameNumber) ==
    /\ ~crashed
    /\ LET c == IF mImageCache = "null" THEN CurCache
                ELSE ReleaseAll(mTransientRefs, CurCache)
       IN  /\ mPool' = c.pool
           /\ mOwned' = c.owned
           /\ heap' = c.heap
    /\ mTransientRefs' = IF mImageCache = "null" THEN mTransientRefs ELSE << >>
    /\ mResources' = << >>
    /\ mPasses' = << >>
    /\ mExecutionOrder' = << >>
    /\ mFrameNumber' = frameNumber
    /\ compiledSinceBegin' = FALSE
    /\ cmd' = << >>
    /\ lastOp' = [op |-> "BeginFrame", frameNumber |-> frameNumber,
                  released |-> IF mImageCache = "null" THEN 0 ELSE Len(mTransientRefs)]
    /\ UNCHANGED <<mCompiled, mImageCache, mMutex, batcherVars, threadVars, lastReq, srcScope,
                   keptHandles, crashed>>

BeginFrame(frameNumber) ==
    /\ ~crashed
    /\ LET c == IF mImageCache = "null" THEN CurCache
                ELSE ReleaseAll(mTransientRefs, CurCache)
       IN  /\ mPool' = c.pool
           /\ mOwned' = c.owned
           /\ heap' = c.heap
    /\ mTransientRefs' = IF mImageCache = "null" THEN mTransientRefs ELSE << >>
    /\ mResources' = << >>
    /\ mPasses' = << >>
    /\ mExecutionOrder' = << >>
    /\ mCompiled' = FALSE
    /\ mFrameNumber' = frameNumber
    /\ compiledSinceBegin' = FALSE
    /\ cmd' = << >>
    /\ lastOp' = [op |-> "BeginFrame", frameNumber |-> frameNumber,
                  released |-> IF mImageCache = "null" THEN 0 ELSE Len(mTransientRefs)]
    /\ UNCHANGED <<mImageCache, mMutex, batcherVars, threadVars, lastReq, srcScope, keptHandles,
                   crashed>>

CompileCall == \E vmaOk \in [1..Len(mResources) -> BOOLEAN] : Compile(vmaOk)

\* Execution model: one frame of externally owned images.
Next ==
    \/ (Len(mResources) < MaxResources /\ \E l \in InitialLayouts : AddImage(l))
    \/ \E s \in ExecSetups : AddPass(s)
    \/ CompileCall
    \/ Execute

Spec == Init /\ [][Next]_vars

\* Ordering model: passes that declare edges only.
NextOrder ==
    \/ BeginFrame(0)
    \/ \E s \in OrderSetups : AddPass(s)
    \/ CompileCall

SpecOrder == Init /\ [][NextOrder]_vars

\* Frame model: frames in sequence, with transient resources and the cache.
NextFrame ==
    \/ Initialize
    \/ \E f \in Frames : BeginFrame(f)
    \/ (Len(mResources) < MaxFrameResources /\ AddImage("UNDEFINED"))
    \/ (Len(mResources) < MaxFrameResources /\ CreateImage(DescA))
    \/ \E s \in FrameSetups : AddPass(s)
    \/ CompileCall
    \/ Execute

SpecFrame == Init /\ [][NextFrame]_vars

(***************************************************************************)
(* BarrierBatcher used on its own                                          *)
(***************************************************************************)
BatcherLayouts  == {"SHADER_READ_ONLY_OPTIMAL", "DEPTH_ATTACHMENT_OPTIMAL"}
BatcherStages   == {{"FRAGMENT_SHADER"}}
BatcherAccesses == {{}, {"SHADER_SAMPLED_READ"}, {"DEPTH_STENCIL_ATTACHMENT_WRITE"},
                    {"SHADER_STORAGE_WRITE"}}

NoReq == [none |-> TRUE]

CurBatcher == Batcher(mImageStates, mPendingImageBarriers, mPendingBufferBarriers)

SetBatcher(b) ==
    /\ mImageStates' = b.states
    /\ mPendingImageBarriers' = b.images
    /\ mPendingBufferBarriers' = b.buffers

BatcherResetCall(n) ==
    /\ SetBatcher(BatcherReset(n))
    /\ lastReq' = [i \in 1..n |-> NoReq]
    /\ srcScope' = [i \in 1..n |-> [stage |-> {"TOP_OF_PIPE"}, access |-> {}]]
    /\ lastOp' = [op |-> "Reset"]
    /\ cmd' = << >>
    /\ UNCHANGED <<graphVars, cacheVars, threadVars, compiledSinceBegin, keptHandles, crashed>>

\* SetInitialState with its default stage and access arguments.
BatcherSetInitialStateCall(resourceIdx, layout) ==
    /\ SetBatcher(BatcherSetInitialState(CurBatcher, resourceIdx, layout,
                                         {"TOP_OF_PIPE"}, {}))
    /\ lastReq' = IF resourceIdx < Len(lastReq)
                  THEN [lastReq EXCEPT ![resourceIdx + 1] = NoReq] ELSE lastReq
    /\ srcScope' = IF resourceIdx < Len(srcScope)
                   THEN [srcScope EXCEPT ![resourceIdx + 1] =
                            [stage |-> {"TOP_OF_PIPE"}, access |-> {}]]
                   ELSE srcScope
    /\ lastOp' = [op |-> "SetInitialState"]
    /\ cmd' = << >>
    /\ UNCHANGED <<graphVars, cacheVars, threadVars, compiledSinceBegin, keptHandles, crashed>>

BatcherTransitionImageCall(resourceIdx, newLayout, dstStage, dstAccess) ==
    LET b       == BatcherTransitionImage(CurBatcher, resourceIdx, ExternalImage,
                                          newLayout, dstStage, dstAccess)
        tracked == resourceIdx < Len(mImageStates)
        req     == [layout |-> newLayout, stage |-> dstStage, access |-> dstAccess]
    IN  /\ Len(mPendingImageBarriers) < MaxPending
        /\ SetBatcher(b)
        /\ lastReq' = IF tracked THEN [lastReq EXCEPT ![resourceIdx + 1] = req]
                      ELSE lastReq
        /\ srcScope' =
              IF ~tracked THEN srcScope
              ELSE IF Len(b.images) > Len(mPendingImageBarriers)
                   THEN [srcScope EXCEPT ![resourceIdx + 1] =
                            [stage |-> dstStage, access |-> dstAccess]]
                   ELSE [srcScope EXCEPT ![resourceIdx + 1] =
                            [stage |-> @.stage \cup dstStage,
                             access |-> @.access \cup dstAccess]]
        /\ lastOp' = [op |-> "TransitionImage", resource |-> resourceIdx,
                      layout |-> newLayout, stage |-> dstStage, access |-> dstAccess,
                      before |-> IF tracked THEN mImageStates[resourceIdx + 1] ELSE NoReq,
                      prev |-> IF tracked THEN lastReq[resourceIdx + 1] ELSE NoReq,
                      appended |-> Len(b.images) - Len(mPendingImageBarriers)]
        /\ cmd' = << >>
    /\ UNCHANGED <<graphVars, cacheVars, threadVars, compiledSinceBegin, keptHandles, crashed>>

\* One transfer-to-shader barrier over a whole buffer.
BatcherAddBufferBarrierCall ==
    /\ Len(mPendingBufferBarriers) < MaxPending
    /\ SetBatcher(BatcherAddBufferBarrier(CurBatcher, "buffer", 0, "VK_WHOLE_SIZE",
                                          {"TRANSFER"}, {"TRANSFER_WRITE"},
                                          {"FRAGMENT_SHADER"}, {"SHADER_SAMPLED_READ"}))
    /\ lastOp' = [op |-> "AddBufferBarrier"]
    /\ cmd' = << >>
    /\ UNCHANGED <<graphVars, cacheVars, threadVars, compiledSinceBegin, lastReq, srcScope,
                   keptHandles, crashed>>

BatcherFlushCall ==
    LET f == BatcherFlush(CurBatcher)
    IN  /\ SetBatcher(f.b)
        /\ cmd' = f.emitted
        /\ lastOp' = [op |-> "Flush"]
        /\ UNCHANGED <<graphVars, cacheVars, threadVars, compiledSinceBegin, lastReq, srcScope,
                       keptHandles, crashed>>

NextBatcher ==
    \/ \E n \in 0..MaxTracked : BatcherResetCall(n)
    \/ \E r \in 0..MaxTracked, l \in InitialLayouts : BatcherSetInitialStateCall(r, l)
    \/ \E r \in 0..MaxTracked, l \in BatcherLayouts, st \in BatcherStages,
          a \in BatcherAccesses : BatcherTransitionImageCall(r, l, st, a)
    \/ BatcherAddBufferBarrierCall
    \/ BatcherFlushCall

SpecBatcher == Init /\ [][NextBatcher]_vars

(***************************************************************************)
(* ImageCache called from several threads                                  *)
(*                                                                         *)
(* Every public method takes std::lock_guard on mMutex for its whole body. *)
(* Acquire is split between its read of the pool and its writes, so that   *)
(* the lock, and not the model, is what keeps two calls apart.             *)
(***************************************************************************)
CacheKeys == {KeyOfDesc(DescA), KeyOfDesc(DescB)}

SetCache(c) ==
    /\ mPool' = c.pool
    /\ mOwned' = c.owned
    /\ heap' = c.heap

\* A method body that runs without taking mMutex.
LockNotTaken(t) == TRUE

\* std::lock_guard: the constructor returns once no other thread holds mMutex.
LockAvailable(t) == mMutex = 0

Allocated(id) == heap[id] # NoEntry

SameKeyIds(key) == {id \in Ids : Allocated(id) /\ KeyEq(heap[id].key, key)}

Claimed == UNION {held[t] : t \in Threads}

\* The lock, the lookup and the loop over the bucket.
AcquireFind(t, key, currentFrame) ==
    /\ pc[t] = "idle"
    /\ LockAvailable(t)
    /\ mMutex' = t
    /\ pc' = [pc EXCEPT ![t] = "acquire_take"]
    /\ local' = [local EXCEPT
                   ![t] = [op |-> "Acquire", key |-> key, frame |-> currentFrame,
                           img |-> FirstFree(CurCache, key)]]
    /\ UNCHANGED <<graphVars, batcherVars, mPool, mOwned, heap, held, tag, ghostVars,
                   lastOp, crashed>>

\* The stores into the entry found, or CreateImage, and the return.
AcquireTake(t, vmaOk) ==
    /\ pc[t] = "acquire_take"
    /\ LET r == IF local[t].img # 0
                THEN [c |-> TakeEntry(CurCache, local[t].img, local[t].frame),
                      ret |-> local[t].img, created |-> FALSE]
                ELSE CacheCreateImage(CurCache, local[t].key, local[t].frame, vmaOk)
       IN  /\ SetCache(r.c)
           /\ held' = IF r.ret = 0 THEN held
                      ELSE [held EXCEPT ![t] = @ \cup {r.ret}]
           /\ lastOp' = [op |-> "Acquire", ret |-> r.ret,
                         wasClaimed |-> r.ret \in Claimed]
    /\ mMutex' = 0
    /\ pc' = [pc EXCEPT ![t] = "idle"]
    /\ local' = [local EXCEPT ![t] = [op |-> "none"]]
    /\ UNCHANGED <<graphVars, batcherVars, tag, ghostVars, crashed>>

\* Release is one store under the lock.  Callers release what they hold: an
\* entry Acquire returned to them.
Release(t, img) ==
    /\ pc[t] = "idle"
    /\ img \in held[t]
    /\ LockAvailable(t)
    /\ SetCache(CacheRelease(CurCache, img))
    /\ held' = [held EXCEPT ![t] = @ \ {img}]
    /\ lastOp' = [op |-> "Release"]
    /\ UNCHANGED <<graphVars, batcherVars, mMutex, pc, local, tag, ghostVars, crashed>>

\* EvictUnused holds the lock from its first line to its return.
EvictUnused(t, currentFrame, maxIdleFrames) ==
    /\ pc[t] = "idle"
    /\ LockAvailable(t)
    /\ SetCache(CacheEvictUnused(CurCache, currentFrame, maxIdleFrames))
    /\ lastOp' = [op |-> "EvictUnused", frame |-> currentFrame,
                  maxIdle |-> maxIdleFrames]
    /\ UNCHANGED <<graphVars, batcherVars, mMutex, pc, local, held, tag, ghostVars,
                   crashed>>

NextCache ==
    \/ \E t \in Threads, k \in CacheKeys, f \in Frames : AcquireFind(t, k, f)
    \/ \E t \in Threads : \E ok \in (IF pc[t] = "acquire_take" /\ local[t].img # 0
                                     THEN {TRUE} ELSE BOOLEAN) : AcquireTake(t, ok)
    \/ \E t \in Threads : \E img \in held[t] : Release(t, img)
    \/ \E t \in Threads, f \in Frames, m \in 0..MaxIdle : EvictUnused(t, f, m)

SpecCache == Init /\ [][NextCache]_vars

(***************************************************************************)
(* ImageCache used by one caller                                           *)
(*                                                                         *)
(* tag remembers, for every pooled entry, whether it is acquired or        *)
(* released and whether, since it was last acquired, another Acquire with  *)
(* an equal key or a Release of another entry with an equal key was made.  *)
(***************************************************************************)
Disturb(key, except) ==
    [id \in Ids |->
       IF id = except \/ id \notin SameKeyIds(key) THEN tag[id]
       ELSE IF tag[id] = "acquired" THEN "acquired_disturbed"
       ELSE IF tag[id] = "released" THEN "released_disturbed"
       ELSE tag[id]]

AcquireCall(key, currentFrame, vmaOk) ==
    /\ LET r == CacheAcquire(CurCache, key, currentFrame, vmaOk)
       IN  /\ SetCache(r.c)
           /\ held' = IF r.ret = 0 THEN held ELSE [held EXCEPT ![1] = @ \cup {r.ret}]
           /\ tag' = IF r.ret = 0 THEN Disturb(key, 0)
                     ELSE [Disturb(key, r.ret) EXCEPT ![r.ret] = "acquired"]
           /\ lastOp' = [op |-> "Acquire", key |-> key, frame |-> currentFrame,
                         ret |-> r.ret, created |-> r.created,
                         wasReleased |-> r.ret # 0 /\ tag[r.ret] = "released"]
    /\ UNCHANGED <<graphVars, batcherVars, mMutex, pc, local, ghostVars, crashed>>

ReleaseCall(img) ==
    /\ img \in held[1]
    /\ SetCache(CacheRelease(CurCache, img))
    /\ held' = [held EXCEPT ![1] = @ \ {img}]
    /\ tag' = [Disturb(heap[img].key, img) EXCEPT
                 ![img] = IF tag[img] = "acquired" THEN "released"
                          ELSE "released_disturbed"]
    /\ lastOp' = [op |-> "Release"]
    /\ UNCHANGED <<graphVars, batcherVars, mMutex, pc, local, ghostVars, crashed>>

EvictUnusedCall(currentFrame, maxIdleFrames) ==
    /\ LET c == CacheEvictUnused(CurCache, currentFrame, maxIdleFrames)
       IN  /\ SetCache(c)
           /\ tag' = [id \in Ids |-> IF c.heap[id] = NoEntry THEN "none" ELSE tag[id]]
    /\ lastOp' = [op |-> "EvictUnused", frame |-> currentFrame,
                  maxIdle |-> maxIdleFrames,
                  evicted |-> {id \in Ids : Allocated(id) /\
                      CacheEvictUnused(CurCache, currentFrame,
                                       maxIdleFrames).heap[id] = NoEntry}]
    /\ UNCHANGED <<graphVars, batcherVars, mMutex, pc, local, held, ghostVars, crashed>>

NextReuse ==
    \/ \E k \in CacheKeys, f \in Frames, ok \in BOOLEAN : AcquireCall(k, f, ok)
    \/ \E img \in held[1] : ReleaseCall(img)
    \/ \E f \in Frames, m \in 0..MaxIdle : EvictUnusedCall(f, m)

SpecReuse == Init /\ [][NextReuse]_vars

(***************************************************************************)
(* Handles kept across frames                                              *)
(*                                                                         *)
(* A caller stores the handles AddImage, CreateImage and AddPass return    *)
(* and passes them back to GetResource, Read, Write and DependsOn, in the  *)
(* frame it got them in or in a later one.  Handles obtained in the last   *)
(* frame modelled are not stored.                                          *)
(***************************************************************************)
KeptHandle(kind, h, frame) == [kind |-> kind, h |-> h, frame |-> frame]

KeptOf(kind) == {k \in keptHandles : k.kind = kind}

\* h = AddImage(...) or h = CreateImage(...): the caller stores the handle.
KeepResourceHandle ==
    /\ ~crashed
    /\ lastOp.op \in {"AddImage", "CreateImage"}
    /\ mFrameNumber < MaxFrame
    /\ keptHandles' = keptHandles \cup
           {KeptHandle("resource", Len(mResources) - 1, mFrameNumber)}
    /\ UNCHANGED <<graphVars, batcherVars, cacheVars, threadVars, cmd,
                   compiledSinceBegin, lastReq, srcScope, lastOp, crashed>>

\* h = AddPass(...): the caller stores the handle.
KeepPassHandle ==
    /\ ~crashed
    /\ lastOp.op = "AddPass"
    /\ mFrameNumber < MaxFrame
    /\ keptHandles' = keptHandles \cup
           {KeptHandle("pass", Len(mPasses) - 1, mFrameNumber)}
    /\ UNCHANGED <<graphVars, batcherVars, cacheVars, threadVars, cmd,
                   compiledSinceBegin, lastReq, srcScope, lastOp, crashed>>

\* return mResources[h]; an index past the end reads outside the vector:
\* the process faults or the caller gets bytes that are no registered node.
GetResource(k, faults) ==
    /\ ~crashed
    /\ IF k.h < Len(mResources)
       THEN /\ lastOp' = [op |-> "GetResource", h |-> k.h,
                          stale |-> k.frame # mFrameNumber, resolved |-> TRUE]
            /\ UNCHANGED crashed
       ELSE /\ lastOp' = [op |-> "GetResource", h |-> k.h,
                          stale |-> k.frame # mFrameNumber, resolved |-> FALSE]
            /\ crashed' = faults
    /\ UNCHANGED <<graphVars, batcherVars, cacheVars, threadVars, ghostVars>>

\* mPasses[pass].<list>.push_back(...) called directly with stored handles;
\* a pass index past the end writes outside the vector.
PushAccess(op, field, kp, item, resourceResolved) ==
    /\ ~crashed
    /\ IF kp.h < Len(mPasses)
       THEN /\ Len(mPasses[kp.h + 1][field]) < MaxAccesses
            /\ mPasses' = [mPasses EXCEPT ![kp.h + 1][field] = Append(@, item)]
            /\ lastOp' = [op |-> op, stale |-> kp.frame # mFrameNumber,
                          resolved |-> TRUE, resourceResolved |-> resourceResolved]
            /\ UNCHANGED crashed
       ELSE /\ lastOp' = [op |-> op, stale |-> kp.frame # mFrameNumber,
                          resolved |-> FALSE, resourceResolved |-> resourceResolved]
            /\ crashed' = TRUE
            /\ UNCHANGED mPasses
    /\ UNCHANGED <<mImageCache, mFrameNumber, mResources, mExecutionOrder, mCompiled,
                   mTransientRefs, batcherVars, cacheVars, threadVars, ghostVars>>

Read(kp, kr, u) ==
    PushAccess("Read", "reads", kp, ResourceAccess(kr.h, u.layout, u.stage, u.access),
               kr.h < Len(mResources))

Write(kp, kr, u) ==
    PushAccess("Write", "writes", kp, ResourceAccess(kr.h, u.layout, u.stage, u.access),
               kr.h < Len(mResources))

\* The resource argument of DependsOn is stored and never read.
DependsOn(kp, kd) ==
    PushAccess("DependsOn", "dependencies", kp, Dependency(kd.h, 0),
               kd.h < Len(mPasses))

NextHandles ==
    \/ (mFrameNumber < MaxFrame /\ BeginFrame(mFrameNumber + 1))
    \/ (Len(mResources) < MaxFrameResources /\ AddImage("UNDEFINED"))
    \/ (Len(mPasses) < MaxFramePasses /\ AddPass(PassEntry(<< >>, << >>, << >>)))
    \/ KeepResourceHandle
    \/ KeepPassHandle
    \/ \E k \in KeptOf("resource"), faults \in BOOLEAN : GetResource(k, faults)
    \/ \E kp \in KeptOf("pass"), kr \in KeptOf("resource") : Read(kp, kr, ForwardRead)
    \/ \E kp \in KeptOf("pass"), kr \in KeptOf("resource") : Write(kp, kr, ShadowWrite)
    \/ \E kp \in KeptOf("pass"), kd \in KeptOf("pass") : DependsOn(kp, kd)

SpecHandles == Init /\ [][NextHandles]_vars

(***************************************************************************)
(* The three passes of the repository in one frame                         *)
(*                                                                         *)
(* Resource 0 is the shadow array, 1 the depth buffer, 2 the swapchain     *)
(* image.  The passes are registered in any order; each Desc carries the   *)
(* handle its dependency has or will get.                                  *)
(***************************************************************************)
SceneResource == [csm |-> 0, depth |-> 1, swapchain |-> 2]

SceneKinds == {"Shadow", "Forward", "Present"}

ForwardColorWrite == [layout |-> "COLOR_ATTACHMENT_OPTIMAL",
                      stage  |-> {"COLOR_ATTACHMENT_OUTPUT"},
                      access |-> {"COLOR_ATTACHMENT_WRITE"}]

Use(res, u) == ResourceAccess(res, u.layout, u.stage, u.access)

\* handleOf: pass kind -> the handle AddPass gives it
SceneHandles ==
    {f \in [SceneKinds -> 0..(Cardinality(SceneKinds) - 1)] :
        \A a, b \in SceneKinds : a # b => f[a] # f[b]}

\* Setups that declare their accesses and forget DependsOn.
SceneSetupNoEdges(kind, handleOf) ==
    IF kind = "Shadow"
    THEN PassEntry(<< >>, <<Use(SceneResource.csm, ShadowWrite)>>, << >>)
    ELSE IF kind = "Forward"
    THEN PassEntry(<<Use(SceneResource.csm, ForwardRead)>>,
                   <<Use(SceneResource.depth, ShadowWrite),
                     Use(SceneResource.swapchain, ForwardColorWrite)>>,
                   << >>)
    ELSE PassEntry(<< >>, <<Use(SceneResource.swapchain, PresentWrite)>>, << >>)

\* What Setup of each pass declares.
SceneSetup(kind, handleOf) ==
    IF kind = "Shadow"
    THEN PassEntry(<< >>, <<Use(SceneResource.csm, ShadowWrite)>>, << >>)
    ELSE IF kind = "Forward"
    THEN PassEntry(<<Use(SceneResource.csm, ForwardRead)>>,
                   <<Use(SceneResource.depth, ShadowWrite),
                     Use(SceneResource.swapchain, ForwardColorWrite)>>,
                   <<Dependency(handleOf["Shadow"], SceneResource.csm)>>)
    ELSE PassEntry(<< >>, <<Use(SceneResource.swapchain, PresentWrite)>>,
                   <<Dependency(handleOf["Forward"], SceneResource.swapchain)>>)

\* The passes registered so far are those handleOf places below Len(mPasses).
SceneConsistent(handleOf) ==
    \A k \in SceneKinds :
        handleOf[k] < Len(mPasses) => mPasses[handleOf[k] + 1] = SceneSetup(k, handleOf)

SceneComplete ==
    /\ Len(mResources) = Cardinality(DOMAIN SceneResource)
    /\ Len(mPasses) = Cardinality(SceneKinds)

NextScene ==
    \/ (Len(mResources) < Cardinality(DOMAIN SceneResource)
          /\ \E l \in InitialLayouts : AddImage(l))
    \/ \E handleOf \in SceneHandles, k \in SceneKinds :
          /\ handleOf[k] = Len(mPasses)
          /\ SceneConsistent(handleOf)
          /\ AddPass(SceneSetup(k, handleOf))
    \/ (SceneComplete /\ CompileCall)
    \/ (SceneComplete /\ Execute)

SpecScene == Init /\ [][NextScene]_vars

(***************************************************************************)
(* Properties of Compile                                                   *)
(***************************************************************************)
DepsOf(passes, p) ==
    {passes[p + 1].dependencies[k].dependency : k \in DOMAIN passes[p + 1].dependencies}

RECURSIVE DepClosure(_, _, _)
DepClosure(passes, S, n) ==
    IF n = 0 THEN S
    ELSE DepClosure(passes, S \cup UNION {DepsOf(passes, x) : x \in S}, n - 1)

\* The passes p depends on, directly or through other passes.
ReachableDeps(passes, p) == DepClosure(passes, DepsOf(passes, p), Len(passes))

Acyclic(passes) ==
    \A p \in 0..(Len(passes) - 1) : p \notin ReachableDeps(passes, p)

Occurrences(order, p) == Cardinality({k \in DOMAIN order : order[k] = p})

PositionOf(order, p) == CHOOSE k \in DOMAIN order : order[k] = p

\* C1: whenever the explicit edges form no cycle, the order Compile leaves
\* holds every pass exactly once and every pass after each pass it
\* depends on.
TopologicalValidity ==
    (lastOp.op = "Compile" /\ Acyclic(mPasses)) =>
        /\ Len(mExecutionOrder) = Len(mPasses)
        /\ \A p \in 0..(Len(mPasses) - 1) :
              /\ Occurrences(mExecutionOrder, p) = 1
              /\ \A d \in DepsOf(mPasses, p) :
                    PositionOf(mExecutionOrder, d) < PositionOf(mExecutionOrder, p)

\* An acyclic frame was compiled in which one pass repeats an edge and one
\* pass depends on a pass declared after it.
TopologicalValidityWitness ==
    /\ lastOp.op = "Compile"
    /\ Acyclic(mPasses)
    /\ Len(mPasses) >= 3
    /\ \E i \in DOMAIN mPasses :
          /\ Len(mPasses[i].dependencies) >= 2
          /\ mPasses[i].dependencies[1] = mPasses[i].dependencies[2]
    /\ \E p \in 0..(Len(mPasses) - 1) : \E d \in DepsOf(mPasses, p) : d > p
    /\ mExecutionOrder # Iota(Len(mPasses))

\* C7: whenever the explicit edges contain a cycle, Compile still marks the
\* graph compiled and the order is declaration order 0, 1, ..., n-1.
CycleFallback ==
    (lastOp.op = "Compile" /\ ~Acyclic(mPasses)) =>
        /\ mCompiled
        /\ mExecutionOrder = Iota(Len(mPasses))

\* A frame was compiled in which a pass depends on itself and the sort had
\* already consumed another pass before it got stuck.
CycleFallbackWitness ==
    /\ lastOp.op = "Compile"
    /\ mCompiled
    /\ Len(mPasses) >= 3
    /\ \E p \in 0..(Len(mPasses) - 1) : p \in DepsOf(mPasses, p)
    /\ KahnOrder(mPasses) # << >>
    /\ Len(KahnOrder(mPasses)) < Len(mPasses)
    /\ mExecutionOrder = Iota(Len(mPasses))

(***************************************************************************)
(* Properties of Execute                                                   *)
(***************************************************************************)
DeclaredAccesses(entry) == Range(entry.reads) \cup Range(entry.writes)

PassEvents == SelectSeq(cmd, LAMBDA e : e.ev = "pass")

\* C2: when a pass's Execute is invoked, every usage the pass declared
\* finds the resource tracked in the declared layout with the declared
\* access included in the tracked access mask.
DeclaredStateGuarantee ==
    \A k \in DOMAIN cmd :
        cmd[k].ev = "pass" =>
            \A a \in DeclaredAccesses(mPasses[cmd[k].pass + 1]) :
                /\ cmd[k].states[a.resource + 1].layout = a.layout
                /\ a.access \subseteq cmd[k].states[a.resource + 1].access

\* C6: one Execute of a compiled graph invokes every registered pass
\* exactly once, in the compiled order, each time with all transitions of
\* that pass requested before and no barrier left pending.
EveryPassExecutedOnce ==
    (lastOp.op = "Execute" /\ lastOp.compiled) =>
        /\ \A p \in 0..(Len(mPasses) - 1) :
              Cardinality({k \in DOMAIN cmd : cmd[k].ev = "pass" /\ cmd[k].pass = p}) = 1
        /\ [k \in DOMAIN PassEvents |-> PassEvents[k].pass] = mExecutionOrder
        /\ \A k \in DOMAIN cmd :
              cmd[k].ev = "pass" =>
                  /\ cmd[k].pending = 0
                  /\ Cardinality({j \in 1..(k - 1) :
                         cmd[j].ev = "transition" /\ cmd[j].pass = cmd[k].pass})
                     = Len(mPasses[cmd[k].pass + 1].reads)
                       + Len(mPasses[cmd[k].pass + 1].writes)

\* C8: an Execute issued while no Compile happened since the latest
\* BeginFrame (or ever) records nothing and changes neither the graph's
\* tables nor the batcher.
ExecuteBeforeCompileIsNoOp ==
    [][(lastOp'.op = "Execute" /\ ~compiledSinceBegin) =>
          /\ cmd' = << >>
          /\ UNCHANGED <<graphVars, batcherVars>>]_vars

\* Execute was called in a frame that registered resources and a pass but
\* was not compiled, after an earlier frame had been compiled and executed.
ExecuteBeforeCompileWitness ==
    /\ lastOp.op = "Execute"
    /\ ~compiledSinceBegin
    /\ mResources # << >>
    /\ mPasses # << >>
    /\ mImageStates # << >>
    /\ Len(mImageStates) # Len(mResources)
    /\ cmd = << >>

(***************************************************************************)
(* Properties of TransitionImage                                           *)
(***************************************************************************)
\* The access bits that name a write: those of kWriteBits and the storage
\* write bit the precomputation shaders of the repository use.
VulkanWriteBits == kWriteBits \cup {"SHADER_STORAGE_WRITE"}

IsWriteAccess(a) == a \cap VulkanWriteBits # {}
IsReadAccess(a)  == a \cap VulkanWriteBits = {}

TransitionOfTracked == lastOp.op = "TransitionImage" /\ lastOp.before # NoReq

\* C3: in an Execute, the access that follows a declared write of the same
\* resource always appends exactly one image barrier.
WriteThenAccessAppendsOne ==
    \A i, j \in DOMAIN cmd :
       (/\ i < j
        /\ cmd[i].ev = "transition"
        /\ cmd[j].ev = "transition"
        /\ cmd[i].decl = "write"
        /\ cmd[i].resource = cmd[j].resource
        /\ \A k \in (i + 1)..(j - 1) :
              ~(cmd[k].ev = "transition" /\ cmd[k].resource = cmd[i].resource))
       => cmd[j].appended = 1

\* C4: a read that follows a read of the same resource in the same layout
\* appends no barrier.
ReadAfterReadAppendsNone ==
    (/\ TransitionOfTracked
     /\ lastOp.prev # NoReq
     /\ IsReadAccess(lastOp.prev.access)
     /\ IsReadAccess(lastOp.access)
     /\ lastOp.prev.layout = lastOp.layout) => lastOp.appended = 0

\* A second read in the same layout widened the tracked stage and access
\* and queued nothing.
ReadAfterReadWitness ==
    /\ TransitionOfTracked
    /\ lastOp.prev # NoReq
    /\ lastOp.prev.access = {}
    /\ lastOp.access = {"SHADER_SAMPLED_READ"}
    /\ lastOp.prev.layout = lastOp.layout
    /\ lastOp.appended = 0
    /\ mImageStates[lastOp.resource + 1].access = {"SHADER_SAMPLED_READ"}
    /\ mImageStates[lastOp.resource + 1].layout = lastOp.layout

\* C5: a request whose layout differs from the tracked layout always
\* appends exactly one barrier.
LayoutChangeAppendsOne ==
    (TransitionOfTracked /\ lastOp.before.layout # lastOp.layout) =>
        lastOp.appended = 1

\* A layout change between two accesses without any write bit queued a
\* barrier, the tracked layout not being the initial UNDEFINED.
LayoutChangeWitness ==
    /\ TransitionOfTracked
    /\ lastOp.before.layout # lastOp.layout
    /\ lastOp.before.layout # "UNDEFINED"
    /\ lastOp.before.access = {"SHADER_SAMPLED_READ"}
    /\ lastOp.access = {"SHADER_SAMPLED_READ"}
    /\ lastOp.appended = 1

(***************************************************************************)
(* Properties of the ImageCache                                            *)
(***************************************************************************)
Pooled(id) ==
    \E k \in DOMAIN mPool : KeyEq(k, heap[id].key) /\ id \in Range(mPool[k])

\* C9: under every interleaving, an entry in use has exactly one claimant,
\* is never handed out by another Acquire and stays allocated, pooled and
\* owned until it is released.
ExclusiveLiveClaims ==
    /\ \A t1, t2 \in Threads : t1 # t2 => held[t1] \cap held[t2] = {}
    /\ \A id \in Claimed :
          /\ Allocated(id)
          /\ heap[id].inUse
          /\ heap[id].image # VK_NULL_HANDLE
          /\ id \in Range(mOwned)
          /\ Pooled(id)
    /\ (lastOp.op = "Acquire" /\ lastOp.ret # 0) => ~lastOp.wasClaimed

\* An EvictUnused that would have evicted by age ran while two threads
\* held entries of one key, and left them alone.
ExclusiveLiveClaimsWitness ==
    /\ lastOp.op = "EvictUnused"
    /\ \E t1, t2 \in Threads :
          /\ t1 # t2
          /\ \E a \in held[t1], b \in held[t2] :
                /\ KeyEq(heap[a].key, heap[b].key)
                /\ ULt32(lastOp.maxIdle, IdleAge(lastOp.frame, heap[a].lastUsedFrame))
                /\ ULt32(lastOp.maxIdle, IdleAge(lastOp.frame, heap[b].lastUsedFrame))

\* C10 as stated: an Acquire whose key equals that of an entry acquired and
\* released before, and not evicted since, returns that entry and
\* allocates nothing.
ReuseAfterRelease ==
    [][lastOp'.op = "Acquire" =>
         \A id \in SameKeyIds(lastOp'.key) :
            tag[id] \in {"released", "released_disturbed"} =>
               lastOp'.ret = id /\ ~lastOp'.created]_vars

\* C10 amended: the same, provided no other Acquire of that key and no
\* Release of another entry of that key came in between.
ReuseAfterReleaseUndisturbed ==
    [][lastOp'.op = "Acquire" =>
         \A id \in SameKeyIds(lastOp'.key) :
            tag[id] = "released" => lastOp'.ret = id /\ ~lastOp'.created]_vars

\* An entry was acquired, released and acquired again while another entry
\* of the same key was pooled.
ReuseAfterReleaseWitness ==
    /\ lastOp.op = "Acquire"
    /\ lastOp.wasReleased
    /\ ~lastOp.created
    /\ tag[lastOp.ret] = "acquired"
    /\ Cardinality(SameKeyIds(lastOp.key)) >= 2

\* C11: EvictUnused destroys every entry that is not in use and whose idle
\* age (currentFrame - lastUsedFrame on uint32_t) exceeds maxIdleFrames,
\* removing it from the pool and the owned list, and leaves every entry
\* that is not in use and within the window as it was.
IdleEviction ==
    [][lastOp'.op = "EvictUnused" =>
         \A id \in Ids :
            (Allocated(id) /\ ~heap[id].inUse) =>
               IF ~ULe32(IdleAge(lastOp'.frame, heap[id].lastUsedFrame), lastOp'.maxIdle)
               THEN /\ heap'[id] = NoEntry
                    /\ id \notin Range(mOwned')
                    /\ \A k \in DOMAIN mPool' : id \notin Range(mPool'[k])
               ELSE /\ heap'[id] = heap[id]
                    /\ id \in Range(mOwned')
                    /\ \E k \in DOMAIN mPool' :
                          KeyEq(k, heap[id].key) /\ id \in Range(mPool'[k])]_vars

\* One EvictUnused destroyed an entry and kept another that was not in use
\* and exactly at the edge of the window or inside it.
IdleEvictionWitness ==
    /\ lastOp.op = "EvictUnused"
    /\ lastOp.evicted # {}
    /\ \E id \in Ids :
          /\ Allocated(id)
          /\ ~heap[id].inUse
          /\ ULe32(IdleAge(lastOp.frame, heap[id].lastUsedFrame), lastOp.maxIdle)
          /\ Pooled(id)

(***************************************************************************)
(* Properties of the frame                                                 *)
(***************************************************************************)
\* C12: BeginFrame(frameNumber) marks every entry the graph had claimed as
\* not in use and destroys none, leaves the graph without claims, with
\* empty resource table, pass table and execution order, not compiled and
\* with the given frame number, and leaves the set of pooled entries as it
\* was.
BeginFrameEffect ==
    [][lastOp'.op = "BeginFrame" =>
         /\ \A i \in DOMAIN mTransientRefs :
               LET id == mTransientRefs[i].cached
               IN  /\ heap'[id] # NoEntry
                   /\ ~heap'[id].inUse
                   /\ heap'[id].image = heap[id].image
         /\ mTransientRefs' = << >>
         /\ mResources' = << >>
         /\ mPasses' = << >>
         /\ mExecutionOrder' = << >>
         /\ ~mCompiled'
         /\ mFrameNumber' = lastOp'.frameNumber
         /\ mPool' = mPool
         /\ mOwned' = mOwned
         /\ \A id \in Ids : (heap'[id] = NoEntry) <=> (heap[id] = NoEntry)]_vars

\* A BeginFrame with a new frame number released two claims; both entries
\* are still pooled.
BeginFrameEffectWitness ==
    /\ lastOp.op = "BeginFrame"
    /\ lastOp.released >= 2
    /\ mFrameNumber = 1
    /\ Cardinality({id \in Ids : Allocated(id) /\ ~heap[id].inUse /\ Pooled(id)}) >= 2

\* C13: a handle obtained in one frame and used after the next BeginFrame
\* with GetResource, Read, Write or DependsOn never resolves to a resource
\* or pass registered in the new frame.
FrameIsolation ==
    (lastOp.op \in {"GetResource", "Read", "Write", "DependsOn"} /\ lastOp.stale)
        => ~lastOp.resolved

(***************************************************************************)
(* Properties of the three-pass frame                                      *)
(***************************************************************************)
\* The handle of the pass of a kind, once all three are registered.
SceneHandleOf(kind) ==
    CHOOSE h \in 0..(Len(mPasses) - 1) :
        \E handleOf \in SceneHandles :
            SceneConsistent(handleOf) /\ handleOf[kind] = h

\* What Execute handed to the command buffer: barrier commands, each as the
\* set of <<resource, oldLayout, newLayout>> it carries, and pass bodies.
Emitted ==
    LET evs == SelectSeq(cmd, LAMBDA e : e.ev # "transition")
    IN  [i \in DOMAIN evs |->
           IF evs[i].ev = "barrier"
           THEN [ev |-> "barrier",
                 images |-> {<<b.resource, b.oldLayout, b.newLayout>> :
                                b \in Range(evs[i].images)}]
           ELSE [ev |-> "pass", pass |-> evs[i].pass]]

SceneExecuted == SceneComplete /\ lastOp.op = "Execute" /\ lastOp.compiled

\* C14: with the three resources starting UNDEFINED, the order is
\* [Shadow, Forward, Present] and Execute emits the shadow array's move to
\* DEPTH_ATTACHMENT before Shadow; its move to SHADER_READ_ONLY and the
\* moves of depth and color out of UNDEFINED before Forward; color's move
\* to PRESENT_SRC before Present; and nothing else.
EndToEndScenario ==
    (SceneExecuted /\ \A i \in DOMAIN mResources : mResources[i].initialLayout = "UNDEFINED")
    =>  /\ mExecutionOrder = <<SceneHandleOf("Shadow"), SceneHandleOf("Forward"),
                               SceneHandleOf("Present")>>
        /\ Emitted =
             << [ev |-> "barrier",
                 images |-> {<<0, "UNDEFINED", "DEPTH_ATTACHMENT_OPTIMAL">>}],
                [ev |-> "pass", pass |-> SceneHandleOf("Shadow")],
                [ev |-> "barrier",
                 images |-> {<<0, "DEPTH_ATTACHMENT_OPTIMAL", "SHADER_READ_ONLY_OPTIMAL">>,
                             <<1, "UNDEFINED", "DEPTH_ATTACHMENT_OPTIMAL">>,
                             <<2, "UNDEFINED", "COLOR_ATTACHMENT_OPTIMAL">>}],
                [ev |-> "pass", pass |-> SceneHandleOf("Forward")],
                [ev |-> "barrier",
                 images |-> {<<2, "COLOR_ATTACHMENT_OPTIMAL", "PRESENT_SRC_KHR">>}],
                [ev |-> "pass", pass |-> SceneHandleOf("Present")] >>

\* The frame was executed with Present registered first and Shadow last.
EndToEndScenarioWitness ==
    /\ SceneExecuted
    /\ \A i \in DOMAIN mResources : mResources[i].initialLayout = "UNDEFINED"
    /\ SceneHandleOf("Present") = 0
    /\ SceneHandleOf("Shadow") = 2
    /\ Len(cmd) > 0

\* C15: when the shadow array is registered in the layout Shadow's write
\* declares, Execute emits no barrier for it before Shadow runs.
NoBarrierWhenInitialized ==
    (SceneExecuted /\ mResources[1].initialLayout = ShadowWrite.layout)
    =>  \A i \in DOMAIN cmd :
           (/\ cmd[i].ev = "barrier"
            /\ \A j \in 1..(i - 1) :
                  ~(cmd[j].ev = "pass" /\ cmd[j].pass = SceneHandleOf("Shadow")))
           => \A b \in Range(cmd[i].images) : b.resource # SceneResource.csm

NewRefs == SubSeq(mTransientRefs', Len(mTransientRefs) + 1, Len(mTransientRefs'))

RanEveryPass(tr, n) ==
    LET ps == SelectSeq(tr, LAMBDA e : e.ev = "pass")
    IN  /\ Len(ps) = n
        /\ \A p \in 0..(n - 1) : \E i \in DOMAIN ps : ps[i].pass = p

UninitializedCallsAreNoOps ==
    [][(/\ mImageCache = "null"
        /\ lastOp'.op \in {"BeginFrame", "CreateImage", "AddPass", "Compile", "Execute"}) =>
          /\ UNCHANGED <<graphVars, cacheVars>>
          /\ ~crashed']_vars

(***************************************************************************)
(* Properties of transient resolution                                      *)
(***************************************************************************)
TransientHandles == {h \in 0..(Len(mResources) - 1) : mResources[h + 1].isTransient}

RefsOf(h) == {i \in DOMAIN mTransientRefs : mTransientRefs[i].resource = h}

\* The entry reference i holds is the claimed backing of resource h: it was
\* acquired under the key of h's description in the current frame and h
\* carries its image and view.
Backs(i, h) ==
    LET e == heap[mTransientRefs[i].cached]
    IN  /\ e # NoEntry
        /\ e.inUse
        /\ KeyEq(e.key, KeyOfDesc(mResources[h + 1].transientDesc))
        /\ e.lastUsedFrame = mFrameNumber
        /\ mResources[h + 1].image = e.image
        /\ mResources[h + 1].view = e.view

\* C19: right after a Compile whose allocations all succeeded, each
\* transient resource of the frame has exactly one reference in
\* mTransientRefs, whose entry backs it; the references name transient
\* resources only, and no entry is referenced twice.
TransientResolution ==
    (lastOp.op = "Compile" /\ mImageCache = "cache" /\ lastOp.failed = {}) =>
        /\ \A h \in TransientHandles :
              /\ Cardinality(RefsOf(h)) = 1
              /\ \A i \in RefsOf(h) : Backs(i, h)
        /\ \A i \in DOMAIN mTransientRefs : mTransientRefs[i].resource \in TransientHandles
        /\ \A i, j \in DOMAIN mTransientRefs :
              mTransientRefs[i].cached = mTransientRefs[j].cached => i = j

(***************************************************************************)
(* Compile and Execute over arbitrary edges                                *)
(***************************************************************************)
\* Frames of passes that declare edges only (to themselves, to earlier and
\* later passes, repeated), compiled and executed in any interleaving.
NextCompletion ==
    \/ BeginFrame(0)
    \/ \E s \in OrderSetups : AddPass(s)
    \/ CompileCall
    \/ Execute

SpecCompletion == Init /\ [][NextCompletion]_vars

\* The passes whose Execute one run of RenderGraph::Execute invoked, in order.
Invoked(tr) ==
    LET ps == SelectSeq(tr, LAMBDA e : e.ev = "pass")
    IN  [k \in DOMAIN ps |-> ps[k].pass]

\* C20: whatever edges the passes declare, a Compile step ends with
\* mCompiled set and an execution order naming each registered pass once;
\* an Execute step on a compiled graph has invoked exactly the passes of
\* mExecutionOrder, first to last, when it returns, and never a proper
\* prefix of them.
Completion ==
    [][/\ lastOp'.op = "Compile" =>
            /\ mCompiled'
            /\ ~crashed'
            /\ Len(mExecutionOrder') = Len(mPasses)
            /\ \A p \in 0..(Len(mPasses) - 1) : Occurrences(mExecutionOrder', p) = 1
       /\ (lastOp'.op = "Execute" /\ mCompiled) =>
            /\ Invoked(cmd') = mExecutionOrder
            /\ ~crashed'
            /\ UNCHANGED <<mCompiled, mExecutionOrder>>]_vars

\* An Execute returned on a compiled frame of three passes whose edges hold
\* a self-edge, a repeated edge and a cycle through two passes.
CompletionWitness ==
    /\ lastOp.op = "Execute"
    /\ lastOp.compiled
    /\ Len(mExecutionOrder) = 3
    /\ Len(Invoked(cmd)) = 3
    /\ \E p \in 0..(Len(mPasses) - 1) : p \in DepsOf(mPasses, p)
    /\ \E i \in DOMAIN mPasses : \E j, k \in DOMAIN mPasses[i].dependencies :
          j # k /\ mPasses[i].dependencies[j] = mPasses[i].dependencies[k]
    /\ \E p, q \in 0..(Len(mPasses) - 1) :
          p # q /\ q \in DepsOf(mPasses, p) /\ p \in DepsOf(mPasses, q)

(***************************************************************************)
(* Properties of the tracked state of the batcher                          *)
(***************************************************************************)
\* The step is a TransitionImage call on a resource the batcher tracks.
TransitionStep == lastOp'.op = "TransitionImage" /\ lastOp'.resource < Len(mImageStates)

\* C21: a TransitionImage that appends nothing leaves the layout, adds the
\* requested stage and access to the tracked masks and leaves both pending
\* lists alone; one that appends a barrier gives it as source masks the
\* union of the masks requested on the resource since the destination of
\* its previous barrier, or since its initial state.
SourceScopeSuperset ==
    [][TransitionStep =>
          LET r == lastOp'.resource + 1
              s == mImageStates[r]
          IN  IF lastOp'.appended = 0
              THEN /\ mImageStates'[r] = ImageState(s.layout,
                                                    s.stage \cup lastOp'.stage,
                                                    s.access \cup lastOp'.access)
                   /\ UNCHANGED <<mPendingImageBarriers, mPendingBufferBarriers>>
              ELSE LET bar == mPendingImageBarriers'[Len(mPendingImageBarriers')]
                   IN  /\ bar.srcStageMask = srcScope[r].stage
                       /\ bar.srcAccessMask = srcScope[r].access]_vars

\* A barrier is pending whose source masks hold more than one call put
\* there: the initial stage, the stage of a later request and its access.
SourceScopeSupersetWitness ==
    /\ lastOp.op = "TransitionImage"
    /\ lastOp.appended = 1
    /\ mPendingImageBarriers # << >>
    /\ LET bar == mPendingImageBarriers[Len(mPendingImageBarriers)]
       IN  /\ bar.srcStageMask = {"TOP_OF_PIPE", "FRAGMENT_SHADER"}
           /\ bar.srcAccessMask = {"SHADER_SAMPLED_READ", "SHADER_STORAGE_WRITE"}

(***************************************************************************)
(* TransitionImage over several tracked resources                          *)
(***************************************************************************)
\* The batcher reset for MaxTransitionTracked resources, then transitions
\* of any of them and flushes in any order.
NextTransition ==
    \/ BatcherResetCall(MaxTransitionTracked)
    \/ \E r \in 0..(MaxTransitionTracked - 1), l \in BatcherLayouts,
          st \in BatcherStages,
          a \in {{"SHADER_SAMPLED_READ"}, {"DEPTH_STENCIL_ATTACHMENT_WRITE"}} :
          BatcherTransitionImageCall(r, l, st, a)
    \/ BatcherFlushCall

SpecTransition == Init /\ [][NextTransition]_vars

\* C22: a TransitionImage that needs a barrier appends exactly one record
\* to the pending image list, whose source is the triple tracked before
\* the call and whose destination is the requested triple; afterwards the
\* resource is tracked in exactly the requested triple and every other
\* resource is tracked as before.
TransitionRecord ==
    [][(/\ TransitionStep
        /\ BarrierRequired(mImageStates[lastOp'.resource + 1], lastOp'.layout,
                           lastOp'.access)) =>
          LET r   == lastOp'.resource + 1
              s   == mImageStates[r]
              n   == Len(mPendingImageBarriers)
              bar == mPendingImageBarriers'[n + 1]
          IN  /\ Len(mPendingImageBarriers') = n + 1
              /\ SubSeq(mPendingImageBarriers', 1, n) = mPendingImageBarriers
              /\ UNCHANGED mPendingBufferBarriers
              /\ bar.oldLayout = s.layout
              /\ bar.srcStageMask = s.stage
              /\ bar.srcAccessMask = s.access
              /\ bar.newLayout = lastOp'.layout
              /\ bar.dstStageMask = lastOp'.stage
              /\ bar.dstAccessMask = lastOp'.access
              /\ mImageStates'[r] = ImageState(lastOp'.layout, lastOp'.stage,
                                               lastOp'.access)
              /\ DOMAIN mImageStates' = DOMAIN mImageStates
              /\ \A q \in DOMAIN mImageStates : q # r => mImageStates'[q] = mImageStates[q]
      ]_vars

\* A barrier was appended for one resource, from a tracked state that an
\* earlier barrier had set, while another resource is tracked in a state
\* a transition of its own had left.
TransitionRecordWitness ==
    /\ lastOp.op = "TransitionImage"
    /\ lastOp.appended = 1
    /\ lastOp.before.layout # "UNDEFINED"
    /\ lastOp.before.access # {}
    /\ \E q \in DOMAIN mImageStates :
          /\ q # lastOp.resource + 1
          /\ mImageStates[q].layout # "UNDEFINED"
          /\ mImageStates[q] # mImageStates[lastOp.resource + 1]

(***************************************************************************)
(* Properties of the Acquire policy                                        *)
(***************************************************************************)
\* The pooled entries of a key that an Acquire may hand out again.
FreeOfKey(key) ==
    {id \in Ids : Allocated(id) /\ Pooled(id) /\ KeyEq(heap[id].key, key)
                  /\ ~heap[id].inUse}

\* The CachedImage objects the step created.
NewlyAllocated == {id \in Ids : heap[id] = NoEntry /\ heap'[id] # NoEntry}

BucketLen(pool, key) ==
    LET ks == {k \in DOMAIN pool : KeyEq(k, key)}
    IN  IF ks = {} THEN 0 ELSE Len(pool[CHOOSE k \in ks : TRUE])

\* C23: Acquire creates an entry only when no pooled entry of the key is
\* free, and whenever none is free it creates one unless the allocator
\* refuses (then it returns null and changes nothing); the entry returned
\* has the requested key, is in use and carries currentFrame.  A bucket
\* grows only by one entry, in an Acquire of its key after which the caller
\* holds every entry of the bucket, so that it never holds more entries
\* than were claimed at once.  Release clears the in-use flag of its entry
\* and changes nothing else of the cache.
AcquirePolicy ==
    [][/\ lastOp'.op = "Acquire" =>
            /\ NewlyAllocated # {} => FreeOfKey(lastOp'.key) = {}
            /\ FreeOfKey(lastOp'.key) = {} =>
                  \/ Cardinality(NewlyAllocated) = 1 /\ lastOp'.ret \in NewlyAllocated
                  \/ lastOp'.ret = 0 /\ UNCHANGED <<mPool, mOwned, heap>>
            /\ FreeOfKey(lastOp'.key) # {} => lastOp'.ret \in FreeOfKey(lastOp'.key)
            /\ lastOp'.ret # 0 =>
                  /\ KeyEq(heap'[lastOp'.ret].key, lastOp'.key)
                  /\ heap'[lastOp'.ret].inUse
                  /\ heap'[lastOp'.ret].lastUsedFrame = lastOp'.frame
       /\ \A k \in CacheKeys :
             BucketLen(mPool', k) > BucketLen(mPool, k) =>
                /\ lastOp'.op = "Acquire"
                /\ KeyEq(k, lastOp'.key)
                /\ BucketLen(mPool', k) = BucketLen(mPool, k) + 1
                /\ BucketLen(mPool', k) =
                      Cardinality({id \in held'[1] : KeyEq(heap'[id].key, k)})
       /\ lastOp'.op = "Release" =>
            /\ UNCHANGED <<mPool, mOwned>>
            /\ \E img \in held[1] :
                  /\ held'[1] = held[1] \ {img}
                  /\ heap' = [heap EXCEPT ![img].inUse = FALSE]]_vars

\* An Acquire handed out again an entry that was released after use in
\* another frame, while a second entry of the same key is pooled and held.
AcquirePolicyWitness ==
    /\ lastOp.op = "Acquire"
    /\ lastOp.ret # 0
    /\ ~lastOp.created
    /\ lastOp.wasReleased
    /\ lastOp.frame = 1
    /\ BucketLen(mPool, lastOp.key) = 2
    /\ \E id \in held[1] : id # lastOp.ret /\ heap[id].lastUsedFrame = 0

(***************************************************************************)
(* Properties of the lifetimes                                             *)
(***************************************************************************)
\* Pass p declares a read or a write of resource h.
Declares(p, h) ==
    \E a \in DeclaredAccesses(mPasses[p + 1]) : a.resource = h

\* The pass at position o (0-based) of the execution order declares h.
UsedAt(o, h) == Declares(mExecutionOrder[o + 1], h)

\* C24: right after Compile, a resource some pass of the order reads or
\* writes has firstUse at the first and lastUse at the last position of
\* such a pass, hence firstUse <= lastUse; any other resource, one named
\* only in DependsOn edges included, has firstUse = UINT32_MAX and
\* lastUse = 0.
Lifetimes ==
    lastOp.op = "Compile" =>
        \A h \in 0..(Len(mResources) - 1) :
            LET node == mResources[h + 1]
                pos  == 0..(Len(mExecutionOrder) - 1)
            IN  IF \E o \in pos : UsedAt(o, h)
                THEN /\ node.firstUse \in pos
                     /\ UsedAt(node.firstUse, h)
                     /\ \A o \in pos : UsedAt(o, h) => node.firstUse <= o
                     /\ node.lastUse \in pos
                     /\ UsedAt(node.lastUse, h)
                     /\ \A o \in pos : UsedAt(o, h) => o <= node.lastUse
                     /\ node.firstUse <= node.lastUse
                ELSE /\ node.firstUse = UINT32_MAX
                     /\ node.lastUse = 0

\* A frame was compiled in which the pass that runs last names the
\* resource only in its DependsOn edge while the pass that runs first
\* writes it.
LifetimesWitness ==
    /\ lastOp.op = "Compile"
    /\ Len(mResources) = 1
    /\ Len(mExecutionOrder) = 2
    /\ mExecutionOrder # Iota(2)
    /\ LET last == mExecutionOrder[2]
       IN  /\ ~Declares(last, 0)
           /\ \E d \in Range(mPasses[last + 1].dependencies) : d.resource = 0
    /\ Declares(mExecutionOrder[1], 0)
    /\ mResources[1].firstUse = 0
    /\ mResources[1].lastUse = 0

(***************************************************************************)
(* Properties of allocation and lifetimes                                  *)
(***************************************************************************)
\* C25: right after Compile, a transient resource that no pass of the
\* execution order reads or writes has no entry claimed for it: no
\* reference of mTransientRefs names it and it has no backing image.
LifetimeGatesAllocation ==
    (lastOp.op = "Compile" /\ mImageCache = "cache") =>
        \A h \in TransientHandles :
            (~\E o \in 0..(Len(mExecutionOrder) - 1) : UsedAt(o, h)) =>
                /\ RefsOf(h) = {}
                /\ mResources[h + 1].image = VK_NULL_HANDLE

(***************************************************************************)
(* Compile over passes that declare usages and edges                       *)
(***************************************************************************)
\* What a pass's Setup may declare in the usage model: at most one read
\* and one write of a registered resource and at most one edge, to any
\* pass handle of the frame, naming any resource handle.
UsageSetups ==
    IF Len(mPasses) >= MaxPasses THEN {}
    ELSE {PassEntry(r, w, d) :
            r \in SeqsUpTo(AccessesOf(ReadUsages, Len(mResources)), 1),
            w \in SeqsUpTo(AccessesOf({ShadowWrite}, Len(mResources)), 1),
            d \in SeqsUpTo({Dependency(t, h) :
                              t \in 0..(MaxPasses - 1), h \in 0..MaxResources}, 1)}

NextUsage ==
    \/ (Len(mResources) < MaxResources /\ AddImage("UNDEFINED"))
    \/ \E s \in UsageSetups : AddPass(s)
    \/ CompileCall

SpecUsage == Init /\ [][NextUsage]_vars

\* The frame with every Read and Write declaration removed and every edge
\* naming resource 0: what is left is the number of passes, their
\* declaration order and the DependsOn edges between them.
EdgesOnly(passes) ==
    [i \in DOMAIN passes |->
        PassEntry(<< >>, << >>,
                  [k \in DOMAIN passes[i].dependencies |->
                      Dependency(passes[i].dependencies[k].dependency, 0)])]

\* C26: the order Compile leaves is the order it leaves for the same
\* passes and edges without any Read or Write declaration and without
\* the resources named in the edges; frames that differ only in those
\* therefore compile to the same order.
NoImplicitOrdering ==
    lastOp.op = "Compile" => mExecutionOrder = ExecutionOrder(EdgesOnly(mPasses))

\* A frame was compiled in which the first pass reads what the second
\* writes, no edge is declared, and the reader runs first.
NoImplicitOrderingWitness ==
    /\ lastOp.op = "Compile"
    /\ Len(mPasses) = 2
    /\ mPasses[1].dependencies = << >>
    /\ mPasses[2].dependencies = << >>
    /\ mPasses[1].writes = << >>
    /\ \E a \in Range(mPasses[1].reads) : \E b \in Range(mPasses[2].writes) :
          a.resource = b.resource
    /\ mExecutionOrder = <<0, 1>>

(***************************************************************************)
(* Execute over resources registered in a layout the passes ask for        *)
(***************************************************************************)
\* What a pass's Setup may declare in the chain model: at most one sampled
\* read and one depth write of a registered resource.
ChainSetups ==
    IF Len(mPasses) >= MaxPasses THEN {}
    ELSE {PassEntry(r, w, << >>) :
            r \in SeqsUpTo(AccessesOf({ForwardRead}, Len(mResources)), 1),
            w \in SeqsUpTo(AccessesOf({ShadowWrite}, Len(mResources)), 1)}

NextChain ==
    \/ (Len(mResources) < MaxResources /\ \E l \in {"UNDEFINED", "SHADER_READ_ONLY_OPTIMAL"} :
            AddImage(l))
    \/ \E s \in ChainSetups : AddPass(s)
    \/ CompileCall
    \/ Execute

SpecChain == Init /\ [][NextChain]_vars

RECURSIVE ImageBarriers(_)
\* The image barriers of the commands of a trace, in recording order.
ImageBarriers(tr) ==
    IF tr = << >> THEN << >>
    ELSE (IF Head(tr).ev = "barrier" THEN Head(tr).images ELSE << >>)
             \o ImageBarriers(Tail(tr))

BarriersOf(tr, h) == SelectSeq(ImageBarriers(tr), LAMBDA b : b.resource = h)

\* The TransitionImage requests on h that came before its first barrier
\* and queued nothing.
Widening(tr, h) ==
    LET ts == SelectSeq(tr, LAMBDA e : e.ev = "transition" /\ e.resource = h)
    IN  {ts[k] : k \in {j \in DOMAIN ts : \A i \in 1..j : ts[i].appended = 0}}

\* The barriers of h in the trace link up, start at the registered layout
\* and end at the layout tracked when Execute returns.
LayoutChain(tr, h, node, tracked) ==
    LET bs == BarriersOf(tr, h)
    IN  /\ bs # << >> => bs[1].oldLayout = node.initialLayout
        /\ \A k \in 2..Len(bs) : bs[k].oldLayout = bs[k - 1].newLayout
        /\ tracked.layout = IF bs = << >> THEN node.initialLayout
                            ELSE bs[Len(bs)].newLayout

\* C27 as stated: after every Execute of a compiled graph the barriers of
\* each resource form a chain from its registered initial layout to its
\* tracked layout, the first of them with source stage TOP_OF_PIPE and no
\* source access, and the resource nodes are as before the call.
BarrierChainFromTop ==
    [][(lastOp'.op = "Execute" /\ mCompiled) =>
          /\ UNCHANGED mResources
          /\ \A h \in 0..(Len(mResources) - 1) :
                /\ LayoutChain(cmd', h, mResources[h + 1], mImageStates'[h + 1])
                /\ BarriersOf(cmd', h) # << >> =>
                      /\ BarriersOf(cmd', h)[1].srcStageMask = {"TOP_OF_PIPE"}
                      /\ BarriersOf(cmd', h)[1].srcAccessMask = {}]_vars

\* C27, amended: the same chain, the first barrier of a resource having
\* as source masks TOP_OF_PIPE and no access widened by the stage and
\* access of every request on the resource that came before it and needed
\* no barrier.
BarrierChain ==
    [][(lastOp'.op = "Execute" /\ mCompiled) =>
          /\ UNCHANGED mResources
          /\ \A h \in 0..(Len(mResources) - 1) :
                /\ LayoutChain(cmd', h, mResources[h + 1], mImageStates'[h + 1])
                /\ BarriersOf(cmd', h) # << >> =>
                      /\ BarriersOf(cmd', h)[1].srcStageMask =
                            {"TOP_OF_PIPE"} \cup UNION {e.stage : e \in Widening(cmd', h)}
                      /\ BarriersOf(cmd', h)[1].srcAccessMask =
                            UNION {e.access : e \in Widening(cmd', h)}]_vars

\* An Execute returned in which a resource registered in the layout its
\* first pass samples it in got its first barrier from the write of the
\* second pass, with the sampling stage and access in the source masks.
BarrierChainWitness ==
    /\ lastOp.op = "Execute"
    /\ lastOp.compiled
    /\ Len(mResources) = 1
    /\ mResources[1].initialLayout = "SHADER_READ_ONLY_OPTIMAL"
    /\ Len(BarriersOf(cmd, 0)) = 1
    /\ BarriersOf(cmd, 0)[1].oldLayout = "SHADER_READ_ONLY_OPTIMAL"
    /\ BarriersOf(cmd, 0)[1].srcStageMask = {"TOP_OF_PIPE", "FRAGMENT_SHADER"}
    /\ BarriersOf(cmd, 0)[1].srcAccessMask = {"SHADER_SAMPLED_READ"}
    /\ mImageStates[1].layout = "DEPTH_ATTACHMENT_OPTIMAL"

(***************************************************************************)
(* Properties of the batches of Execute                                    *)
(***************************************************************************)
\* C28: no command Execute records holds two image barriers of the same
\* resource.
OneBarrierPerResourcePerBatch ==
    \A k \in DOMAIN cmd :
        cmd[k].ev = "barrier" =>
            \A i, j \in DOMAIN cmd[k].images :
                cmd[k].images[i].resource = cmd[k].images[j].resource => i = j

(***************************************************************************)
(* Properties of the order among unordered passes                          *)
(***************************************************************************)
\* The position (1-based) in the order at which the last dependency of
\* pass p was emitted, which is when p entered the ready queue; 0 for a
\* pass without dependencies, queued before the loop starts.
ReadyTime(p) ==
    IF DepsOf(mPasses, p) = {} THEN 0
    ELSE Max({PositionOf(mExecutionOrder, d) : d \in DepsOf(mPasses, p)})

\* C29: right after Compile, a frame without edges has declaration order;
\* a frame whose edges form no cycle has its passes in the order in which
\* they became ready, passes that became ready at the same time in
\* ascending handle order; a frame with a cycle has declaration order.
\* The order is thereby fixed by the passes and their edges.
DeterministicTieBreak ==
    lastOp.op = "Compile" =>
        /\ (\A i \in DOMAIN mPasses : mPasses[i].dependencies = << >>) =>
              mExecutionOrder = Iota(Len(mPasses))
        /\ ~Acyclic(mPasses) => mExecutionOrder = Iota(Len(mPasses))
        /\ Acyclic(mPasses) =>
              /\ Len(mExecutionOrder) = Len(mPasses)
              /\ \A i, j \in DOMAIN mExecutionOrder :
                    i < j =>
                       LET p == mExecutionOrder[i]
                           q == mExecutionOrder[j]
                       IN  \/ ReadyTime(p) < ReadyTime(q)
                           \/ ReadyTime(p) = ReadyTime(q) /\ p < q

\* A frame was compiled in which the first two passes both wait for the
\* third and are emitted after it, lower handle first.
DeterministicTieBreakWitness ==
    /\ lastOp.op = "Compile"
    /\ Len(mPasses) = 3
    /\ DepsOf(mPasses, 0) = {2}
    /\ DepsOf(mPasses, 1) = {2}
    /\ DepsOf(mPasses, 2) = {}
    /\ mExecutionOrder = <<2, 0, 1>>

(***************************************************************************)
(* ImageCache called with frame numbers around the wrap of the counter     *)
(***************************************************************************)
NextWrap ==
    \/ \E f \in {UINT32_MAX, 0, 1} : AcquireCall(KeyOfDesc(DescA), f, TRUE)
    \/ \E img \in held[1] : ReleaseCall(img)
    \/ \E f \in {UINT32_MAX, 0, 1}, m \in {0, 1, UINT32_MAX} : EvictUnusedCall(f, m)

SpecWrap == Init /\ [][NextWrap]_vars

\* The two 16-bit halves of a uint32_t value.
Half == 65536

Halves(v) ==
    IF v >= 0 THEN [hi |-> v \div Half, lo |-> v % Half]
    ELSE LET u == v - INT32_MIN
         IN  [hi |-> (u \div Half) + (Half \div 2), lo |-> u % Half]

\* (a - b) mod 2^32, subtracting the low halves first and borrowing.
SubHalves(a, b) ==
    LET lo     == a.lo - b.lo
        borrow == IF lo < 0 THEN 1 ELSE 0
        hi     == a.hi - b.hi - borrow
    IN  [hi |-> (hi + Half) % Half, lo |-> (lo + Half) % Half]

GtHalves(a, b) == a.hi > b.hi \/ (a.hi = b.hi /\ a.lo > b.lo)

\* C30: EvictUnused evicts an entry that is not in use if and only if
\* (currentFrame - lastUsedFrame) mod 2^32 exceeds maxIdleFrames; with
\* currentFrame below lastUsedFrame by d that age is 2^32 - d.
WrapAroundIdleAge ==
    [][lastOp'.op = "EvictUnused" =>
         \A id \in Ids :
            (Allocated(id) /\ ~heap[id].inUse) =>
               LET age == SubHalves(Halves(lastOp'.frame),
                                    Halves(heap[id].lastUsedFrame))
               IN  /\ (heap'[id] = NoEntry) <=> GtHalves(age, Halves(lastOp'.maxIdle))
                   /\ ULt32(lastOp'.frame, heap[id].lastUsedFrame) =>
                         \* age + d = 2^32, d = lastUsedFrame - currentFrame
                         LET d == Halves(heap[id].lastUsedFrame - lastOp'.frame)
                         IN  /\ SubHalves(Halves(0), d) = age
                             /\ age # Halves(0)]_vars

\* EvictUnused(0, 1) destroyed an entry, which had to be last used in
\* frame 1 (age 2^32 - 1), and kept an entry last used in frame 2^32 - 1
\* (age 1).
WrapAroundIdleAgeWitness ==
    /\ lastOp.op = "EvictUnused"
    /\ lastOp.frame = 0
    /\ lastOp.maxIdle = 1
    /\ lastOp.evicted # {}
    /\ \E id \in Ids :
          /\ Allocated(id)
          /\ ~heap[id].inUse
          /\ heap[id].lastUsedFrame = UINT32_MAX

====
